---- MODULE Spec2Model ----
(***************************************************************************)
(* Model of the job-matching engine of WFX-Timesheet                        *)
(* (EnhancedJobMatcher, src/unnamed/part_001) and of its configuration      *)
(* (src/unnamed/part_002).                                                  *)
(*                                                                          *)
(* Conventions                                                              *)
(*  - a JavaScript string is a sequence of one-character strings;           *)
(*  - null / undefined are the model value Null;                            *)
(*  - a score in [0,1] that the code computes as a quotient is the pair     *)
(*    <<numerator, denominator>> (denominator > 0), compared exactly;       *)
(*  - a weight, a threshold and a confidence are integers in thousandths    *)
(*    (0.7 is 700);                                                         *)
(*  - a Trip carries tid and a TimesheetEntry carries oid: the identity of  *)
(*    the JavaScript object (its position in the day's input list), which   *)
(*    is distinct from the entry's own id field.                            *)
(***************************************************************************)
EXTENDS Integers, Sequences, FiniteSets, TLC

VARIABLES
    cfg,              \* config.processing.jobMatching
    pc,               \* position of performEnhancedComparison / matchJobsForDay
    dayIdx,           \* number of dates of csvData already taken by the for-of loop
    csvDay,           \* csvData[date] of the day in progress
    wfxDay,           \* wfxData[date] of the day in progress (Null when absent)
    fetchQueue,       \* uniqueJobIds still to look up in fetchJobDetails
    jobDetails,       \* the jobDetails object built by fetchJobDetails
    getJobCalls,      \* job ids passed to wfxClient.getJob for this day, in order
    getJobIssued,     \* per job id, the calls of wfxClient.getJob over the whole run
    trips,            \* workTrips: the trips parameter of performJobMatching
    wfxEntries,       \* wfxEntriesWithJobs: the wfxEntries parameter
    results,          \* the results object of performJobMatching
    i,                \* loop index of the pass in progress (JavaScript index + 1)
    j,                \* inner loop index of the fuzzy pass (JavaScript index + 1)
    scored,           \* <<pass, tid, oid>> handed to calculateMatchScore this day
    dayComparison,    \* the DayComparison returned by the last matchJobsForDay
    dailyComparisons, \* enhancedComparison.dailyComparisons, in insertion order
    summary,          \* enhancedComparison.summary
    alerts,           \* the alerts pushed by generateEnhancedAlerts, in order
    probe             \* one call of calculateMatchScore: its arguments and result

vars == <<cfg, pc, dayIdx, csvDay, wfxDay, fetchQueue, jobDetails, getJobCalls, getJobIssued,
          trips, wfxEntries, results, i, j, scored, dayComparison,
          dailyComparisons, summary, alerts, probe>>

\* null / undefined, one model value per kind of value it stands in for
Null == "null"               \* an absent id or job id
NullStr == <<"null">>        \* an absent string (no string has a 4-letter element)
NullRec == [null |-> TRUE]   \* an absent object
NullNum == <<>>              \* an absent quotient (distanceKm: null)

(***************************************************************************)
(* Generic helpers                                                          *)
(***************************************************************************)
Max(a, b) == IF a >= b THEN a ELSE b
Min(a, b) == IF a <= b THEN a ELSE b
Abs(a) == IF a >= 0 THEN a ELSE -a

Range(s) == {s[k] : k \in 1..Len(s)}

\* Array.prototype.filter
Filter(s, P(_)) ==
    LET RECURSIVE F(_)
        F(t) == IF t = <<>> THEN <<>>
                ELSE (IF P(Head(t)) THEN <<Head(t)>> ELSE <<>>) \o F(Tail(t))
    IN  F(s)

\* splice(k + 1, 1) in place of splice(k, 1)
SpliceNext(s, k) ==
    IF k + 1 > Len(s) THEN s ELSE SubSeq(s, 1, k) \o SubSeq(s, k + 2, Len(s))

\* Array.prototype.splice(k, 1), k a model (1-based) index
RemoveAt(s, k) ==
    IF k > Len(s) THEN s ELSE SubSeq(s, 1, k - 1) \o SubSeq(s, k + 1, Len(s))

\* Array.prototype.findIndex, 0 when nothing is found (JavaScript -1)
FindIndex(s, P(_)) ==
    LET RECURSIVE F(_)
        F(k) == IF k > Len(s) THEN 0 ELSE IF P(s[k]) THEN k ELSE F(k + 1)
    IN  F(1)

\* Array.prototype.sort (stable) under a "less than" comparator: insertion sort
StableSort(s, Less(_, _)) ==
    LET RECURSIVE Ins(_, _)
        Ins(t, x) == IF t = <<>> THEN <<x>>
                     ELSE IF Less(x, Head(t)) THEN <<x>> \o t
                     ELSE <<Head(t)>> \o Ins(Tail(t), x)
        RECURSIVE Srt(_)
        Srt(t) == IF t = <<>> THEN <<>>
                  ELSE Ins(Srt(SubSeq(t, 1, Len(t) - 1)), t[Len(t)])
    IN  Srt(s)

(***************************************************************************)
(* Characters and strings                                                   *)
(***************************************************************************)
Digits == <<"0", "1", "2", "3", "4", "5", "6", "7", "8", "9">>
LowerCase == <<"a", "b", "c", "d", "e", "f", "g", "h", "i", "j", "k", "l", "m",
               "n", "o", "p", "q", "r", "s", "t", "u", "v", "w", "x", "y", "z">>
UpperCase == <<"A", "B", "C", "D", "E", "F", "G", "H", "I", "J", "K", "L", "M",
               "N", "O", "P", "Q", "R", "S", "T", "U", "V", "W", "X", "Y", "Z">>

IndexOf(s, c) == FindIndex(s, LAMBDA x : x = c)

IsDigit(c) == c \in Range(Digits)
\* the regular-expression class \w
IsWordChar(c) == c \in Range(Digits) \cup Range(LowerCase) \cup Range(UpperCase) \cup {"_"}
\* the regular-expression class \s (the blank and the tab are the ones modelled)
IsSpace(c) == c \in {" ", "\t"}

\* String.prototype.toLowerCase
ToLowerChar(c) == IF c \in Range(UpperCase) THEN LowerCase[IndexOf(UpperCase, c)] ELSE c
toLowerCase(s) == [k \in 1..Len(s) |-> ToLowerChar(s[k])]

\* rank of a character in the comparison of two time strings
CharRank(c) ==
    IF c = ":" THEN 0
    ELSE IF IsDigit(c) THEN IndexOf(Digits, c)
    ELSE 10 + IndexOf(LowerCase, ToLowerChar(c))

\* a.localeCompare(b) < 0
RECURSIVE localeCompareLess(_, _)
localeCompareLess(a, b) ==
    IF b = <<>> THEN FALSE
    ELSE IF a = <<>> THEN TRUE
    ELSE IF CharRank(Head(a)) # CharRank(Head(b)) THEN CharRank(Head(a)) < CharRank(Head(b))
    ELSE localeCompareLess(Tail(a), Tail(b))

\* String.prototype.split on a one-character separator
RECURSIVE Split(_, _)
Split(s, sep) ==
    LET k == IndexOf(s, sep)
    IN  IF k = 0 THEN <<s>>
        ELSE <<SubSeq(s, 1, k - 1)>> \o Split(SubSeq(s, k + 1, Len(s)), sep)

\* Number(s) || 0 for one field of a time string: Number gives the value of a
\* string of digits, 0 for the empty string and NaN for anything else
RECURSIVE DigitsValue(_)
DigitsValue(s) ==
    IF s = <<>> THEN 0
    ELSE 10 * DigitsValue(SubSeq(s, 1, Len(s) - 1)) + (IndexOf(Digits, s[Len(s)]) - 1)

NumberOrZero(s) ==
    IF \A k \in 1..Len(s) : IsDigit(s[k]) THEN DigitsValue(s) ELSE 0

\* !s for a string-or-null
Falsy(s) == s = NullStr \/ s = <<>>

timeToMinutes(timeString) ==
    IF Falsy(timeString) THEN 0
    ELSE LET parts == Split(timeString, ":")
             hours == NumberOrZero(parts[1])
             minutes == IF Len(parts) >= 2 THEN NumberOrZero(parts[2]) ELSE 0
         IN  hours * 60 + minutes

(***************************************************************************)
(* Configuration: config.processing.jobMatching.  Weights and confidence    *)
(* thresholds in thousandths, maxLocationDistanceKm in tenths of a km.      *)
(***************************************************************************)
DefaultConfig ==
    [ minimumMatchConfidence |-> 700,
      fuzzyMatchThreshold |-> 400,
      maxTimeOffsetMinutes |-> 30,
      maxLocationDistanceKm |-> 20,
      locationWeight |-> 500,
      timeWeight |-> 300,
      durationWeight |-> 100,
      jobTypeWeight |-> 100 ]

\* another configuration a deployment may set (weights still sum to 1)
AltConfig ==
    [ minimumMatchConfidence |-> 650,
      fuzzyMatchThreshold |-> 350,
      maxTimeOffsetMinutes |-> 20,
      maxLocationDistanceKm |-> 10,
      locationWeight |-> 400,
      timeWeight |-> 400,
      durationWeight |-> 100,
      jobTypeWeight |-> 100 ]

ConfigPool == {DefaultConfig, AltConfig}

(***************************************************************************)
(* Inputs: the trips and timesheet entries a day may hold, and the jobs the *)
(* WFX API knows.                                                           *)
(***************************************************************************)
MaxDays == 2       \* dates in csvData
MaxTrips == 2      \* trips of one day
MaxEntries == 2    \* timesheet entries of one day

\* the start time assumed for an entry that declares none
DefaultStartTime == <<"0", "9", ":", "0", "0">>

MainSt == <<"1", "2", "3", " ", "M", "a", "i", "n", " ", "S", "t">>
MainStreet == <<"1", "2", "3", " ", "M", "a", "i", "n", " ", "S", "t", "r", "e", "e", "t">>
OakRoad == <<"4", "5", " ", "O", "a", "k", " ", "R", "o", "a", "d">>
HomeAvenue == <<"4", " ", "C", "o", "l", "u", "m", "b", "i", "n", "e", " ", "A", "v", "e", "n", "u", "e">>

\* Trips as processCsvData leaves them, without their identity
MorningTrip ==
    [classification |-> "work", addressTo |-> MainSt,
     started |-> <<"0", "9", ":", "0", "0">>, finished |-> <<"1", "0", ":", "0", "0">>, drivingTime |-> <<"0", "1", ":", "0", "0", ":", "0", "0">>]
AfternoonTrip ==
    [classification |-> "work", addressTo |-> MainSt,
     started |-> <<"1", "4", ":", "0", "0">>, finished |-> <<"1", "5", ":", "0", "0">>, drivingTime |-> <<"0", "1", ":", "0", "0", ":", "0", "0">>]
HomeTrip ==
    [classification |-> "personal_evening", addressTo |-> HomeAvenue,
     started |-> <<"1", "7", ":", "0", "0">>, finished |-> <<"1", "7", ":", "3", "0">>, drivingTime |-> <<"0", "0", ":", "3", "0", ":", "0", "0">>]

TripPool == {MorningTrip, AfternoonTrip, HomeTrip}

\* TimesheetEntries without their identity; minutes 0 also stands for an absent
\* minutes field (the code reads it only as "minutes || ...")
MainStreetEntry == [id |-> Null, jobId |-> "J1", startTime |-> <<"0", "9", ":", "0", "5">>, minutes |-> 55]
OakRoadEntry == [id |-> Null, jobId |-> "J2", startTime |-> NullStr, minutes |-> 60]
NoJobEntry == [id |-> "e3", jobId |-> Null, startTime |-> <<"0", "9", ":", "0", "0">>, minutes |-> 30]
MainStreetEntryWithId == [id |-> "e4", jobId |-> "J1", startTime |-> <<"0", "9", ":", "0", "5">>, minutes |-> 55]
ShortVisitEntry == [id |-> "e5", jobId |-> "J1", startTime |-> <<"0", "9", ":", "0", "5">>, minutes |-> 30]

EntryPool == {MainStreetEntry, OakRoadEntry, NoJobEntry, MainStreetEntryWithId, ShortVisitEntry}

\* a morning on site: trips of three hours and entries that start later
LongTrip ==
    [classification |-> "work", addressTo |-> MainSt,
     started |-> <<"0", "9", ":", "0", "0">>, finished |-> <<"1", "2", ":", "0", "0">>, drivingTime |-> <<"0", "3", ":", "0", "0", ":", "0", "0">>]
NorthTrip ==
    [classification |-> "work", addressTo |-> <<"1", "2", "3", " ", "M", "a", "i", "n", " ", "R", "o", "a", "d", " ", "N", "o", "r", "t", "h">>,
     started |-> <<"0", "9", ":", "0", "0">>, finished |-> <<"1", "2", ":", "0", "0">>, drivingTime |-> <<"0", "3", ":", "0", "0", ":", "0", "0">>]

VisitTripPool == {LongTrip, NorthTrip}

NearStartEntry == [id |-> "v1", jobId |-> "J1", startTime |-> <<"0", "9", ":", "2", "5">>, minutes |-> 155]
LateStartEntry == [id |-> "v2", jobId |-> "J1", startTime |-> <<"0", "9", ":", "4", "5">>, minutes |-> 135]
VeryLateStartEntry == [id |-> "v3", jobId |-> "J1", startTime |-> <<"1", "0", ":", "0", "5">>, minutes |-> 135]

VisitEntryPool == {NearStartEntry, LateStartEntry, VeryLateStartEntry}

\* what wfxClient.getJob(jobId) resolves to when it does not throw
JobResponse(jobId) ==
    IF jobId = "J1" THEN [address |-> MainStreet, description |-> "Install"]
    ELSE [address |-> OakRoad, description |-> "Repair"]

SeqsUpTo(S, n) == UNION {[1..k -> S] : k \in 0..n}

\* csvData[date].trips: each trip gets its identity
TripLists == {[k \in 1..Len(t) |-> [tid |-> k] @@ t[k]] : t \in SeqsUpTo(TripPool, MaxTrips)}

\* wfxData[date]: absent, or a summary with its entries
WfxDays ==
    {NullRec} \cup
    {[entries |-> [k \in 1..Len(e) |-> [oid |-> k] @@ e[k]]] : e \in SeqsUpTo(EntryPool, MaxEntries)}

EmptyResults ==
    [matched |-> <<>>, unmatchedTrips |-> <<>>, unmatchedWfxEntries |-> <<>>,
     timeDiscrepancies |-> <<>>, locationIssues |-> <<>>]

InitialSummary ==
    [totalDays |-> 0, matchedJobs |-> 0, unmatchedTrips |-> 0, unmatchedWfxEntries |-> 0,
     locationMatchAccuracy |-> 0, timeMatchAccuracy |-> 0]

(***************************************************************************)
(* Address normalisation and comparison                                     *)
(***************************************************************************)
\* the alternation of the first replace of normalizeAddress, in its order
StreetTypes == <<
    <<"s", "t", "r", "e", "e", "t">>,
    <<"s", "t">>,
    <<"r", "o", "a", "d">>,
    <<"r", "d">>,
    <<"a", "v", "e", "n", "u", "e">>,
    <<"a", "v", "e">>,
    <<"d", "r", "i", "v", "e">>,
    <<"d", "r">>,
    <<"l", "a", "n", "e">>,
    <<"l", "n">>,
    <<"c", "o", "u", "r", "t">>,
    <<"c", "t">> >>

\* \b at the position before s[k] (k in 1..Len(s)+1)
WordBoundary(s, k) ==
    LET before == k > 1 /\ IsWordChar(s[k - 1])
        after == k <= Len(s) /\ IsWordChar(s[k])
    IN  before # after

\* the first alternative of StreetTypes that matches at s[k] with \b on both
\* sides, as its index; 0 when none does
StreetTypeAt(s, k) ==
    FindIndex(StreetTypes,
              LAMBDA w : /\ k + Len(w) - 1 <= Len(s)
                         /\ SubSeq(s, k, k + Len(w) - 1) = w
                         /\ WordBoundary(s, k)
                         /\ WordBoundary(s, k + Len(w)))

\* .replace(/\b(street|st|...|ct)\b/g, '')
RemoveStreetTypes(s) ==
    LET RECURSIVE F(_)
        F(k) == IF k > Len(s) THEN <<>>
                ELSE LET m == StreetTypeAt(s, k)
                     IN  IF m # 0 THEN F(k + Len(StreetTypes[m]))
                         ELSE <<s[k]>> \o F(k + 1)
    IN  F(1)

\* .replace(/[^\w\s]/g, '')
RemovePunctuation(s) == Filter(s, LAMBDA c : IsWordChar(c) \/ IsSpace(c))

\* .replace(/\s+/g, ' ')
CollapseSpaces(s) ==
    LET RECURSIVE F(_)
        F(k) == IF k > Len(s) THEN <<>>
                ELSE IF ~IsSpace(s[k]) THEN <<s[k]>> \o F(k + 1)
                ELSE IF k > 1 /\ IsSpace(s[k - 1]) THEN F(k + 1)
                ELSE <<" ">> \o F(k + 1)
    IN  F(1)

\* String.prototype.trim
RECURSIVE Trim(_)
Trim(s) ==
    IF s = <<>> THEN s
    ELSE IF IsSpace(Head(s)) THEN Trim(Tail(s))
    ELSE IF IsSpace(s[Len(s)]) THEN Trim(SubSeq(s, 1, Len(s) - 1))
    ELSE s

\* normalizeAddress without the replace that strips the street types
normalizeAddressKeepsStreetType(address) ==
    Trim(CollapseSpaces(RemovePunctuation(toLowerCase(address))))

normalizeAddress(address) ==
    Trim(CollapseSpaces(RemovePunctuation(RemoveStreetTypes(toLowerCase(address)))))

\* a quotient n/d as <<n, d>>; q > a/b
QGreater(q, a, b) == q[1] * b > a * q[2]
QInUnit(q) == q[2] > 0 /\ 0 <= q[1] /\ q[1] <= q[2]

calculatePartialAddressMatch(addr1, addr2) ==
    LET words1 == Filter(Split(addr1, " "), LAMBDA w : Len(w) > 2)
        words2 == Filter(Split(addr2, " "), LAMBDA w : Len(w) > 2)
        matches == Filter(words1, LAMBDA w : w \in Range(words2))
    IN  IF Len(words1) = 0 \/ Len(words2) = 0 THEN <<0, 1>>
        ELSE <<Len(matches), Max(Len(words1), Len(words2))>>

\* the result for two addresses that differ after normalisation
PartialLocationMatch(partialScore) ==
    IF QGreater(partialScore, 8, 10)
    THEN [score |-> partialScore, distanceKm |-> <<1, 10>>]
    ELSE [score |-> partialScore,
          distanceKm |-> <<(partialScore[2] - partialScore[1]) * 5, partialScore[2]>>]

\* the result for the two normalised addresses without the exact-match branch
PartialOnlyLocationMatch(normalizedTrip, normalizedJob) ==
    PartialLocationMatch(calculatePartialAddressMatch(normalizedTrip, normalizedJob))

\* the result for the two normalised addresses
NormalizedLocationMatch(normalizedTrip, normalizedJob) ==
    IF normalizedTrip = normalizedJob
    THEN [score |-> <<1, 1>>, distanceKm |-> <<0, 1>>]
    ELSE PartialLocationMatch(calculatePartialAddressMatch(normalizedTrip, normalizedJob))

calculateLocationMatch(tripAddress, jobAddress) ==
    IF Falsy(tripAddress) \/ Falsy(jobAddress)
    THEN [score |-> <<0, 1>>, distanceKm |-> NullNum]
    ELSE NormalizedLocationMatch(normalizeAddress(tripAddress), normalizeAddress(jobAddress))

(***************************************************************************)
(* Inputs of single calls of the scorer                                     *)
(***************************************************************************)
MainRoadNorth == <<"1", "2", "3", " ", "M", "a", "i", "n", " ", "R", "o", "a", "d", " ", "N", "o", "r", "t", "h">>

ScoreTimes == { <<"0", "8", ":", "3", "0">>,
                <<"0", "9", ":", "0", "0">>,
                <<"1", "0", ":", "0", "0">>,
                <<"0", "9", ":", "0", "5">> }
ScoreDrivingTimes == { <<"0", "0", ":", "0", "0", ":", "0", "0">>, <<"0", "1", ":", "0", "0", ":", "0", "0">> }
ScoreMinutes == {0, 30, 55, 120}

ScoreTripPool ==
    { [tid |-> 1, classification |-> "work", addressTo |-> a,
       started |-> st, finished |-> fi, drivingTime |-> dr] :
      a \in {MainSt, MainRoadNorth, NullStr}, st \in ScoreTimes, fi \in ScoreTimes,
      dr \in ScoreDrivingTimes }

\* entries with resolved JobDetails (the address may be null: a placeholder)
ScoreEntryPool ==
    { [oid |-> 1, id |-> Null, jobId |-> "J1", startTime |-> st, minutes |-> m,
       jobDetails |-> [id |-> "J1", address |-> a, description |-> "Install"]] :
      st \in (ScoreTimes \ {<<"1", "0", ":", "0", "0">>}) \cup {NullStr}, m \in ScoreMinutes,
      a \in {MainStreet, OakRoad, MainRoadNorth, NullStr} }

\* weights in [0, 1] whose sum is at most 1
WeightPool ==
    { <<500, 300, 100, 100>>, <<400, 400, 100, 100>>, <<1000, 0, 0, 0>>,
      <<0, 1000, 0, 0>>, <<0, 0, 1000, 0>>, <<0, 0, 0, 1000>>, <<0, 0, 0, 0>>,
      <<250, 250, 250, 250>>, <<300, 300, 400, 0>> }

ScoreConfigs ==
    { [DefaultConfig EXCEPT !.locationWeight = w[1], !.timeWeight = w[2],
                            !.durationWeight = w[3], !.jobTypeWeight = w[4]] :
      w \in WeightPool }

(***************************************************************************)
(* The string functions are evaluated once per string of the input pools.   *)
(***************************************************************************)
JobIds == {e.jobId : e \in EntryPool} \ {Null}
TimeStrings ==
    {t.started : t \in TripPool \cup VisitTripPool}
    \cup {t.finished : t \in TripPool \cup VisitTripPool}
    \cup {t.drivingTime : t \in TripPool \cup VisitTripPool}
    \cup {e.startTime : e \in EntryPool \cup VisitEntryPool}
    \cup ScoreTimes \cup ScoreDrivingTimes \cup {NullStr}
TripAddresses == {t.addressTo : t \in TripPool \cup ScoreTripPool \cup VisitTripPool} \cup {NullStr}
JobAddresses ==
    {JobResponse(id).address : id \in JobIds}
    \cup {e.jobDetails.address : e \in ScoreEntryPool} \cup {NullStr}

MinutesOf == [t \in TimeStrings |-> timeToMinutes(t)]
LocationMatchOf == [a \in TripAddresses |-> [b \in JobAddresses |-> calculateLocationMatch(a, b)]]

(***************************************************************************)
(* Match Scorer                                                             *)
(***************************************************************************)
\* timeToMinutes(wfxEntry.startTime || '09:00')
wfxStartMinutes(wfxEntry) ==
    MinutesOf[IF Falsy(wfxEntry.startTime) THEN DefaultStartTime ELSE wfxEntry.startTime]

\* wfxEntry.minutes || 60
MinutesOrHour(wfxEntry) == IF wfxEntry.minutes = 0 THEN 60 ELSE wfxEntry.minutes

\* the overlap score and the offset of the two intervals, in minutes of the day
TimeOverlap(tripStart, tripEnd, wfxStart, wfxMinutes) ==
    LET wfxEnd == wfxStart + wfxMinutes
        overlapStart == Max(tripStart, wfxStart)
        overlapEnd == Min(tripEnd, wfxEnd)
        overlap == Max(0, overlapEnd - overlapStart)
        totalCovered == Max(tripEnd - tripStart, wfxEnd - wfxStart)
        overlapScore == IF totalCovered > 0 THEN <<overlap, totalCovered>> ELSE <<0, 1>>
    IN  [score |-> overlapScore, offsetMinutes |-> Abs(tripStart - wfxStart)]

\* TimeOverlap without the Math.max(0, ...) that clamps the overlap
TimeOverlapUnclamped(tripStart, tripEnd, wfxStart, wfxMinutes) ==
    LET wfxEnd == wfxStart + wfxMinutes
        overlap == Min(tripEnd, wfxEnd) - Max(tripStart, wfxStart)
        totalCovered == Max(tripEnd - tripStart, wfxEnd - wfxStart)
    IN  [score |-> IF totalCovered > 0 THEN <<overlap, totalCovered>> ELSE <<0, 1>>,
         offsetMinutes |-> Abs(tripStart - wfxStart)]

\* calculateTimeMatch without the clamp of the overlap
calculateTimeMatchUnclamped(trip, wfxEntry) ==
    TimeOverlapUnclamped(MinutesOf[trip.started], MinutesOf[trip.finished],
                         wfxStartMinutes(wfxEntry), MinutesOrHour(wfxEntry))

calculateTimeMatch(trip, wfxEntry) ==
    TimeOverlap(MinutesOf[trip.started], MinutesOf[trip.finished],
                wfxStartMinutes(wfxEntry), MinutesOrHour(wfxEntry))

\* Math.min(tripDuration, wfxDuration) / Math.max(tripDuration, wfxDuration)
DurationRatio(tripDuration, wfxDuration) ==
    IF tripDuration = 0 \/ wfxDuration = 0 THEN <<0, 1>>
    ELSE <<Min(tripDuration, wfxDuration), Max(tripDuration, wfxDuration)>>

calculateDurationMatch(trip, wfxEntry) ==
    DurationRatio(MinutesOf[trip.drivingTime], wfxEntry.minutes)

\* a job type score that counts every pair as of the same type
calculateJobTypeMatchSame(trip, wfxEntry) == <<1, 1>>

\* "return 0.5": a neutral score
calculateJobTypeMatch(trip, wfxEntry) == <<1, 2>>

\* wfxEntry.jobDetails.address of an entry whose jobDetails is null: TypeError
ScoreThrows(wfxEntry) == wfxEntry.jobDetails = NullRec

\* the weight with no reduction for an approximate match
FullWeight(weight, tenths) == weight

\* weight * 0.6 or weight * 0.5: the contribution of an approximate match
ReducedWeight(weight, tenths) == (weight * tenths) \div 10

\* the tiers of calculateMatchScore over the four component scores
CombineScores(c, locationScore, timeScore, durationScore, jobTypeScore) ==
    LET loc == IF QGreater(locationScore.score, 8, 10)
                 THEN [add |-> c.locationWeight, tag |-> <<"exact_location">>]
               ELSE IF QGreater(locationScore.score, 6, 10)
                 THEN [add |-> ReducedWeight(c.locationWeight, 6), tag |-> <<"approximate_location">>]
               ELSE [add |-> 0, tag |-> <<>>]
        tim == IF QGreater(timeScore.score, 8, 10)
                 THEN [add |-> c.timeWeight, tag |-> <<"time_overlap">>]
               ELSE IF QGreater(timeScore.score, 5, 10)
                 THEN [add |-> ReducedWeight(c.timeWeight, 5), tag |-> <<"approximate_time">>]
               ELSE [add |-> 0, tag |-> <<>>]
        dur == IF QGreater(durationScore, 7, 10)
                 THEN [add |-> c.durationWeight, tag |-> <<"duration_match">>]
               ELSE [add |-> 0, tag |-> <<>>]
        typ == IF QGreater(jobTypeScore, 5, 10)
                 THEN [add |-> c.jobTypeWeight, tag |-> <<"job_type_match">>]
               ELSE [add |-> 0, tag |-> <<>>]
    IN  [ confidence |-> loc.add + tim.add + dur.add + typ.add,
          criteria |-> loc.tag \o tim.tag \o dur.tag \o typ.tag,
          locationMatch |-> locationScore.score,
          timeMatch |-> timeScore.score,
          distanceKm |-> locationScore.distanceKm,
          timeOffsetMinutes |-> timeScore.offsetMinutes ]

\* calculateMatchScore for an entry with jobDetails, under configuration c
calculateMatchScore(c, trip, wfxEntry) ==
    CombineScores(c,
                  LocationMatchOf[trip.addressTo][wfxEntry.jobDetails.address],
                  calculateTimeMatch(trip, wfxEntry),
                  calculateDurationMatch(trip, wfxEntry),
                  calculateJobTypeMatch(trip, wfxEntry))

Init ==
    /\ cfg \in ConfigPool
    /\ pc = "nextDay"
    /\ dayIdx = 0
    /\ csvDay = NullRec
    /\ wfxDay = NullRec
    /\ fetchQueue = <<>>
    /\ jobDetails = <<>>
    /\ getJobCalls = <<>>
    /\ getJobIssued = [id \in JobIds |-> 0]
    /\ trips = <<>>
    /\ wfxEntries = <<>>
    /\ results = EmptyResults
    /\ i = 0
    /\ j = 0
    /\ scored = <<>>
    /\ dayComparison = NullRec
    /\ dailyComparisons = <<>>
    /\ summary = InitialSummary
    /\ alerts = <<>>
    /\ probe = NullRec

(***************************************************************************)
(* fetchJobDetails                                                          *)
(***************************************************************************)
\* [...new Set(wfxEntries.map(entry => entry.jobId).filter(Boolean))]
uniqueJobIds(entries) ==
    LET RECURSIVE F(_, _)
        F(k, acc) ==
            IF k > Len(entries) THEN acc
            ELSE IF entries[k].jobId = Null \/ entries[k].jobId \in Range(acc) THEN F(k + 1, acc)
            ELSE F(k + 1, Append(acc, entries[k].jobId))
    IN  F(1, <<>>)

\* the record stored for a job id whose lookup resolved
FetchedDetails(jobId) ==
    LET jobDetail == JobResponse(jobId)
    IN  [id |-> jobId, address |-> jobDetail.address, description |-> jobDetail.description]

\* the record stored in the catch branch
PlaceholderDetails(jobId) ==
    [id |-> jobId, address |-> NullStr, description |-> "Job details unavailable"]

\* jobDetails[jobId] || null
LookupJobDetails(details, jobId) ==
    LET k == FindIndex(details, LAMBDA d : d.id = jobId)
    IN  IF jobId = Null \/ k = 0 THEN NullRec ELSE details[k]

(***************************************************************************)
(* performJobMatching: the confident pass                                   *)
(***************************************************************************)
\* the update that keeps the entry scored last, whatever its confidence
KeepLast(best, wfxEntry, matchScore) ==
    [bestMatch |-> [wfxEntry |-> wfxEntry] @@ matchScore,
     highestConfidence |-> matchScore.confidence]

\* the update of bestMatch and highestConfidence for one scored entry
KeepBest(best, wfxEntry, matchScore) ==
    IF matchScore.confidence > best.highestConfidence
    THEN [bestMatch |-> [wfxEntry |-> wfxEntry] @@ matchScore,
          highestConfidence |-> matchScore.confidence]
    ELSE best

\* findBestJobMatch over the whole wfxEntries parameter
findBestJobMatch(c, trip, entries) ==
    LET RECURSIVE F(_, _)
        F(k, best) ==
            IF k > Len(entries) THEN best.bestMatch
            ELSE IF entries[k].jobDetails = NullRec THEN F(k + 1, best)
            ELSE F(k + 1, KeepBest(best, entries[k], calculateMatchScore(c, trip, entries[k])))
    IN  F(1, [bestMatch |-> NullRec, highestConfidence |-> 0])

\* the entries findBestJobMatch hands to calculateMatchScore, in order
ScoredByBestMatch(trip, entries) ==
    LET withJob == Filter(entries, LAMBDA e : e.jobDetails # NullRec)
    IN  [k \in 1..Len(withJob) |-> <<"confident", trip.tid, withJob[k].oid>>]

\* the commit test without its threshold
CommitsAnyBest(c, bestMatch) == bestMatch # NullRec

\* the test that commits the best match of a trip
CommitsConfident(c, bestMatch) ==
    bestMatch # NullRec /\ bestMatch.confidence > c.minimumMatchConfidence

\* distanceKm > limit, limit in tenths of a km; null compares as 0
DistanceExceeds(distanceKm, limitTenths) ==
    distanceKm # NullNum /\ distanceKm[1] * 10 > limitTenths * distanceKm[2]

TimeSeverity(c, offsetMinutes) == IF offsetMinutes > 60 THEN "high" ELSE "medium"

LocationSeverity(c, distanceKm) ==
    IF DistanceExceeds(distanceKm, c.maxLocationDistanceKm * 2) THEN "high" ELSE "medium"

\* the entry removed from unmatchedWfxEntries on a confident commit:
\* findIndex(e => e.id === bestMatch.wfxEntry.id)
RemovalIndex(unmatched, committed) ==
    FindIndex(unmatched, LAMBDA e : e.id = committed.id)

\* the body of the first loop of performJobMatching after findBestJobMatch
\* has returned bestMatch for trip, the trip at index k
CommitBestMatch(c, r, trip, k, bestMatch) ==
    LET matchInfo == [ pass |-> "confident",
                       trip |-> trip,
                       wfxEntry |-> bestMatch.wfxEntry,
                       confidence |-> bestMatch.confidence,
                       matchCriteria |-> bestMatch.criteria,
                       locationMatch |-> bestMatch.locationMatch,
                       timeMatch |-> bestMatch.timeMatch,
                       distanceKm |-> bestMatch.distanceKm,
                       timeOffsetMinutes |-> bestMatch.timeOffsetMinutes ]
        wfxIndex == RemovalIndex(r.unmatchedWfxEntries, bestMatch.wfxEntry)
    IN  IF ~CommitsConfident(c, bestMatch) THEN r
        ELSE [ matched |-> Append(r.matched, matchInfo),
               unmatchedTrips |-> RemoveAt(r.unmatchedTrips, k),
               unmatchedWfxEntries |->
                   IF wfxIndex # 0 THEN RemoveAt(r.unmatchedWfxEntries, wfxIndex)
                   ELSE r.unmatchedWfxEntries,
               timeDiscrepancies |->
                   IF bestMatch.timeOffsetMinutes > c.maxTimeOffsetMinutes
                   THEN Append(r.timeDiscrepancies,
                               [trip |-> trip, wfxEntry |-> bestMatch.wfxEntry,
                                offsetMinutes |-> bestMatch.timeOffsetMinutes,
                                severity |-> TimeSeverity(c, bestMatch.timeOffsetMinutes)])
                   ELSE r.timeDiscrepancies,
               locationIssues |->
                   IF DistanceExceeds(bestMatch.distanceKm, c.maxLocationDistanceKm)
                   THEN Append(r.locationIssues,
                               [trip |-> trip, wfxEntry |-> bestMatch.wfxEntry,
                                distanceKm |-> bestMatch.distanceKm,
                                severity |-> LocationSeverity(c, bestMatch.distanceKm)])
                   ELSE r.locationIssues ]

\* one iteration of the first loop of performJobMatching, for index k
ConfidentIteration(c, r, allTrips, entries, k) ==
    CommitBestMatch(c, r, allTrips[k], k, findBestJobMatch(c, allTrips[k], entries))

(***************************************************************************)
(* performEnhancedComparison / matchJobsForDay as a state machine           *)
(***************************************************************************)
IsWork(trip) == trip.classification = "work"

\* where the fuzzy pass stands once its loops are at (ii, jj): the loops are
\* over when no trip is left to visit; a trip with no entry left to test is
\* passed over.  This variant steps over the trip before the one it leaves.
FuzzyPositionSkipsTrip(r, ii, jj) ==
    IF ii = 0 \/ Len(r.unmatchedWfxEntries) = 0 THEN [pc |-> "finish", i |-> 0, j |-> 0]
    ELSE IF jj = 0 THEN
        IF ii <= 2 THEN [pc |-> "finish", i |-> 0, j |-> 0]
        ELSE [pc |-> "fuzzy", i |-> ii - 2, j |-> Len(r.unmatchedWfxEntries)]
    ELSE [pc |-> "fuzzy", i |-> ii, j |-> jj]

\* where the fuzzy pass stands once its loops are at (ii, jj)
FuzzyPosition(r, ii, jj) ==
    IF ii = 0 \/ Len(r.unmatchedWfxEntries) = 0 THEN [pc |-> "finish", i |-> 0, j |-> 0]
    ELSE IF jj = 0 THEN
        IF ii = 1 THEN [pc |-> "finish", i |-> 0, j |-> 0]
        ELSE [pc |-> "fuzzy", i |-> ii - 1, j |-> Len(r.unmatchedWfxEntries)]
    ELSE [pc |-> "fuzzy", i |-> ii, j |-> jj]

\* entry of performFuzzyMatching
FuzzyStart(r) == FuzzyPosition(r, Len(r.unmatchedTrips), Len(r.unmatchedWfxEntries))

\* the early return without the filter on the classification
NoWfxResultsAllTrips(t) == [EmptyResults EXCEPT !.unmatchedTrips = t]

\* the day without timesheet data: dayComparison.unmatchedTrips is the work trips
NoWfxResults(t) == [EmptyResults EXCEPT !.unmatchedTrips = Filter(t, IsWork)]

\* the for-of loop of performEnhancedComparison takes the next date and
\* matchJobsForDay runs up to its first await (or to its early return)
BeginDayWith(t, w) ==
    /\ pc = "nextDay"
    /\ csvDay' = [trips |-> t]
    /\ wfxDay' = w
    /\ IF w = NullRec \/ Len(w.entries) = 0
       THEN /\ results' = NoWfxResults(t)
            /\ pc' = "finish"
            /\ fetchQueue' = <<>>
       ELSE /\ results' = EmptyResults
            /\ pc' = "fetch"
            /\ fetchQueue' = uniqueJobIds(w.entries)
    /\ dayIdx' = dayIdx + 1
    /\ jobDetails' = <<>>
    /\ getJobCalls' = <<>>
    /\ trips' = <<>>
    /\ wfxEntries' = <<>>
    /\ i' = 0
    /\ j' = 0
    /\ scored' = <<>>
    /\ dayComparison' = NullRec
    /\ UNCHANGED <<probe, alerts, cfg, getJobIssued, dailyComparisons, summary>>

\* a run over csvData of up to MaxDays dates, each with any trips and any
\* timesheet day
BeginDay ==
    /\ dayIdx < MaxDays
    /\ \E t \in TripLists, w \in WfxDays : BeginDayWith(t, w)

\* fetchJobDetails: wfxClient.getJob resolves for the next job id
GetJobResolves ==
    /\ pc = "fetch"
    /\ fetchQueue # <<>>
    /\ jobDetails' = Append(jobDetails, FetchedDetails(Head(fetchQueue)))
    /\ getJobCalls' = Append(getJobCalls, Head(fetchQueue))
    /\ getJobIssued' = [getJobIssued EXCEPT ![Head(fetchQueue)] = @ + 1]
    /\ fetchQueue' = Tail(fetchQueue)
    /\ UNCHANGED <<probe, alerts, cfg, pc, dayIdx, csvDay, wfxDay, trips, wfxEntries, results, i, j,
                   scored, dayComparison, dailyComparisons, summary>>

\* fetchJobDetails: wfxClient.getJob throws for the next job id
GetJobThrows ==
    /\ pc = "fetch"
    /\ fetchQueue # <<>>
    /\ jobDetails' = Append(jobDetails, PlaceholderDetails(Head(fetchQueue)))
    /\ getJobCalls' = Append(getJobCalls, Head(fetchQueue))
    /\ getJobIssued' = [getJobIssued EXCEPT ![Head(fetchQueue)] = @ + 1]
    /\ fetchQueue' = Tail(fetchQueue)
    /\ UNCHANGED <<probe, alerts, cfg, pc, dayIdx, csvDay, wfxDay, trips, wfxEntries, results, i, j,
                   scored, dayComparison, dailyComparisons, summary>>

\* workTrips of matchJobsForDay
workTrips(day) ==
    StableSort(Filter(day.trips, IsWork),
               LAMBDA a, b : localeCompareLess(a.started, b.started))

\* wfxEntriesWithJobs of matchJobsForDay
wfxEntriesWithJobs(day, details) ==
    StableSort([k \in 1..Len(day.entries) |->
                   day.entries[k] @@ [jobDetails |-> LookupJobDetails(details, day.entries[k].jobId)]],
               LAMBDA a, b : localeCompareLess(IF Falsy(a.startTime) THEN <<>> ELSE a.startTime,
                                               IF Falsy(b.startTime) THEN <<>> ELSE b.startTime))

\* fetchJobDetails has returned: the pools are built and performJobMatching
\* sets up its results
StartMatching ==
    /\ pc = "fetch"
    /\ fetchQueue = <<>>
    /\ LET wt == workTrips(csvDay)
           we == wfxEntriesWithJobs(wfxDay, jobDetails)
           r == [EmptyResults EXCEPT !.unmatchedTrips = wt, !.unmatchedWfxEntries = we]
           f == FuzzyStart(r)
       IN  /\ trips' = wt
           /\ wfxEntries' = we
           /\ results' = r
           /\ IF Len(wt) > 0
              THEN pc' = "confident" /\ i' = Len(wt) /\ j' = 0
              ELSE pc' = f.pc /\ i' = f.i /\ j' = f.j
    /\ UNCHANGED <<probe, alerts, cfg, dayIdx, csvDay, wfxDay, fetchQueue, jobDetails, getJobCalls, getJobIssued,
                   scored, dayComparison, dailyComparisons, summary>>

\* the results and the loop position an iteration leaves behind
Resume(o) ==
    /\ results' = o.results
    /\ pc' = o.pc
    /\ i' = o.i
    /\ j' = o.j

\* the first loop goes on with the trip before index k, or the fuzzy pass
\* starts on the results r
AfterConfident(r, k) ==
    IF k > 1 THEN [results |-> r, pc |-> "confident", i |-> k - 1, j |-> 0]
    ELSE [results |-> r] @@ FuzzyStart(r)

\* one iteration of the confident pass: findBestJobMatch for trips[i] and the
\* commit of its result
ConfidentStep ==
    /\ pc = "confident"
    /\ i >= 1
    /\ Resume(AfterConfident(ConfidentIteration(cfg, results, trips, wfxEntries, i), i))
    /\ scored' = scored \o ScoredByBestMatch(trips[i], wfxEntries)
    /\ UNCHANGED <<probe, alerts, cfg, dayIdx, csvDay, wfxDay, fetchQueue, jobDetails, getJobCalls, getJobIssued,
                   trips, wfxEntries, dayComparison, dailyComparisons, summary>>

\* the test of the confident pass applied to a pair of the fuzzy pass
CommitsFuzzyAboveMinimum(c, matchScore) == matchScore.confidence > c.minimumMatchConfidence

\* the test that commits a pair in the fuzzy pass
CommitsFuzzy(c, matchScore) == matchScore.confidence > c.fuzzyMatchThreshold

\* the commit of the pair (unmatchedTrips[ii], unmatchedWfxEntries[jj])
CommitFuzzyMatch(r, ii, jj, matchScore) ==
    [r EXCEPT
        !.matched = Append(@, [ pass |-> "fuzzy",
                                trip |-> r.unmatchedTrips[ii],
                                wfxEntry |-> r.unmatchedWfxEntries[jj],
                                confidence |-> matchScore.confidence,
                                matchCriteria |-> Append(matchScore.criteria, "fuzzy_match"),
                                locationMatch |-> matchScore.locationMatch,
                                timeMatch |-> matchScore.timeMatch,
                                distanceKm |-> matchScore.distanceKm,
                                timeOffsetMinutes |-> matchScore.timeOffsetMinutes ]),
        !.unmatchedTrips = RemoveAt(@, ii),
        !.unmatchedWfxEntries = RemoveAt(@, jj)]

\* the inner loop after the commit and its break: the next trip
AfterFuzzyCommit(committed, ii) == [results |-> committed] @@ FuzzyPosition(committed, ii, 0)

\* the body of the inner loop of performFuzzyMatching once the pair is scored
FuzzyIteration(c, r, ii, jj, matchScore) ==
    IF CommitsFuzzy(c, matchScore)
    THEN AfterFuzzyCommit(CommitFuzzyMatch(r, ii, jj, matchScore), ii)
    ELSE [results |-> r] @@ FuzzyPosition(r, ii, jj - 1)

\* one iteration of the inner loop of performFuzzyMatching: the pair
\* (unmatchedTrips[i], unmatchedWfxEntries[j]) is scored
FuzzyStep ==
    /\ pc = "fuzzy"
    /\ scored' = Append(scored, <<"fuzzy", results.unmatchedTrips[i].tid,
                                  results.unmatchedWfxEntries[j].oid>>)
    /\ IF ScoreThrows(results.unmatchedWfxEntries[j])
       THEN pc' = "threw" /\ UNCHANGED <<results, i, j>>
       ELSE Resume(FuzzyIteration(cfg, results, i, j,
                                  calculateMatchScore(cfg, results.unmatchedTrips[i],
                                                      results.unmatchedWfxEntries[j])))
    /\ UNCHANGED <<probe, alerts, cfg, dayIdx, csvDay, wfxDay, fetchQueue, jobDetails, getJobCalls, getJobIssued,
                   trips, wfxEntries, dayComparison, dailyComparisons, summary>>

\* updateSummaryStats
updateSummaryStats(sm, dc) ==
    [sm EXCEPT !.matchedJobs = @ + Len(dc.jobMatches),
               !.unmatchedTrips = @ + Len(dc.unmatchedTrips),
               !.unmatchedWfxEntries = @ + Len(dc.unmatchedWfxEntries)]

\* (part / total * 100) cut to one decimal instead of rounded to it
PercentTenthsTruncated(part, total) == (part * 1000) \div total

\* (part / total * 100).toFixed(1), in tenths of a percent
PercentTenths(part, total) == (part * 2000 + total) \div (2 * total)

\* calculateAccuracyMetrics
calculateAccuracyMetrics(sm) ==
    LET totalJobs == sm.matchedJobs + sm.unmatchedWfxEntries
        totalTrips == sm.matchedJobs + sm.unmatchedTrips
    IN  [sm EXCEPT
            !.locationMatchAccuracy =
                IF totalJobs > 0 THEN PercentTenths(sm.matchedJobs, totalJobs) ELSE 0,
            !.timeMatchAccuracy =
                IF totalTrips > 0 THEN PercentTenths(sm.matchedJobs, totalTrips) ELSE 0]

\* the severity of each record of a list of discrepancies, in order
Severities(records) == [k \in 1..Len(records) |-> records[k].severity]

\* dailyComparisons[date] = dayComparison, kept as what is read from it later:
\* the lengths of its lists and the severities of its discrepancies
StoredDay(dc) ==
    [ date |-> dc.date,
      jobMatches |-> Len(dc.jobMatches),
      unmatchedTrips |-> Len(dc.unmatchedTrips),
      unmatchedWfxEntries |-> Len(dc.unmatchedWfxEntries),
      timeDiscrepancies |-> Severities(dc.timeDiscrepancies),
      locationIssues |-> Severities(dc.locationIssues) ]

\* matchJobsForDay returns its DayComparison; performEnhancedComparison stores
\* it under the date and folds it into the summary
FinishDay ==
    /\ pc = "finish"
    /\ LET dc == [ date |-> dayIdx,
                   jobMatches |-> results.matched,
                   unmatchedTrips |-> results.unmatchedTrips,
                   unmatchedWfxEntries |-> results.unmatchedWfxEntries,
                   timeDiscrepancies |-> results.timeDiscrepancies,
                   locationIssues |-> results.locationIssues ]
       IN  /\ dayComparison' = dc
           /\ dailyComparisons' = Append(dailyComparisons, StoredDay(dc))
           /\ summary' = updateSummaryStats(summary, dc)
    /\ pc' = "nextDay"
    /\ UNCHANGED <<probe, alerts, cfg, dayIdx, csvDay, wfxDay, fetchQueue, jobDetails, getJobCalls, getJobIssued,
                   trips, wfxEntries, results, i, j, scored>>

\* the for-of loop is over: totalDays and the accuracy metrics are set and
\* performEnhancedComparison returns
FinishRun ==
    /\ pc = "nextDay"
    /\ summary' = calculateAccuracyMetrics([summary EXCEPT !.totalDays = dayIdx])
    /\ pc' = "done"
    /\ UNCHANGED <<probe, alerts, cfg, dayIdx, csvDay, wfxDay, fetchQueue, jobDetails, getJobCalls, getJobIssued,
                   trips, wfxEntries, results, i, j, scored, dayComparison,
                   dailyComparisons>>

\* alerts.push(alert) when the condition holds
PushIf(condition, list, alert) == IF condition THEN Append(list, alert) ELSE list

\* every severity of the list, high or not
AnySeverity(severities) == severities

\* filter(d => d.severity === 'high')
HighSeverity(severities) == Filter(severities, LAMBDA sev : sev = "high")

\* the two alerts of one day: its date and the number of high-severity records
DayAlerts(list, day) ==
    PushIf(Len(day.locationIssues) > 0 /\ Len(HighSeverity(day.locationIssues)) > 0,
           PushIf(Len(day.timeDiscrepancies) > 0 /\ Len(HighSeverity(day.timeDiscrepancies)) > 0,
                  list,
                  [ type |-> "significant_time_discrepancy", severity |-> "high",
                    date |-> day.date, count |-> Len(HighSeverity(day.timeDiscrepancies)) ]),
           [ type |-> "significant_location_discrepancy", severity |-> "high",
             date |-> day.date, count |-> Len(HighSeverity(day.locationIssues)) ])

\* Object.values(dailyComparisons).forEach from the day at index k on
RECURSIVE DailyAlerts(_, _, _)
DailyAlerts(list, days, k) ==
    IF k > Len(days) THEN list
    ELSE DailyAlerts(DayAlerts(list, days[k]), days, k + 1)

\* the four alerts of the summary; an accuracy is in tenths of a percent and a
\* message carries the accuracy or the count it is about
SummaryAlerts(list, sm) ==
    PushIf(sm.unmatchedWfxEntries > 0,
      PushIf(sm.unmatchedTrips > 0,
        PushIf(sm.timeMatchAccuracy < 600,
          PushIf(sm.locationMatchAccuracy < 700,
                 list,
                 [ type |-> "low_location_accuracy", severity |-> "high",
                   date |-> Null, count |-> sm.locationMatchAccuracy ]),
          [ type |-> "low_time_accuracy", severity |-> "medium",
            date |-> Null, count |-> sm.timeMatchAccuracy ]),
        [ type |-> "unmatched_work_trips", severity |-> "medium",
          date |-> Null, count |-> sm.unmatchedTrips ]),
      [ type |-> "unmatched_wfx_jobs", severity |-> "medium",
        date |-> Null, count |-> sm.unmatchedWfxEntries ])

\* generateEnhancedAlerts(comparison, enhancedResults), on the alerts the
\* comparison holds so far
generateEnhancedAlerts(list, sm, days) == DailyAlerts(SummaryAlerts(list, sm), days, 1)

\* performComparison hands the returned results to generateEnhancedAlerts
GenerateAlerts ==
    /\ pc = "done"
    /\ alerts' = generateEnhancedAlerts(alerts, summary, dailyComparisons)
    /\ pc' = "alerted"
    /\ UNCHANGED <<probe, cfg, dayIdx, csvDay, wfxDay, fetchQueue, jobDetails, getJobCalls,
                   getJobIssued, trips, wfxEntries, results, i, j, scored, dayComparison,
                   dailyComparisons, summary>>

Next ==
    \/ BeginDay
    \/ GetJobResolves
    \/ GetJobThrows
    \/ StartMatching
    \/ ConfidentStep
    \/ FuzzyStep
    \/ FinishDay
    \/ FinishRun
    \/ GenerateAlerts

Spec == Init /\ [][Next]_vars

(***************************************************************************)
(* Single calls of calculateMatchScore on arbitrary arguments               *)
(***************************************************************************)
ScoreInit ==
    /\ cfg \in ScoreConfigs
    /\ pc = "score"
    /\ dayIdx = 0
    /\ csvDay = NullRec
    /\ wfxDay = NullRec
    /\ fetchQueue = <<>>
    /\ jobDetails = <<>>
    /\ getJobCalls = <<>>
    /\ getJobIssued = [id \in JobIds |-> 0]
    /\ trips = <<>>
    /\ wfxEntries = <<>>
    /\ results = EmptyResults
    /\ i = 0
    /\ j = 0
    /\ scored = <<>>
    /\ dayComparison = NullRec
    /\ dailyComparisons = <<>>
    /\ summary = InitialSummary
    /\ alerts = <<>>
    /\ probe \in {[trip |-> t, wfxEntry |-> e, score |-> NullRec] :
                   t \in ScoreTripPool, e \in ScoreEntryPool}

\* calculateMatchScore(trip, wfxEntry) returns
ScoreCall ==
    /\ pc = "score"
    /\ probe' = [probe EXCEPT !.score = calculateMatchScore(cfg, probe.trip, probe.wfxEntry)]
    /\ pc' = "scored"
    /\ UNCHANGED <<alerts, cfg, dayIdx, csvDay, wfxDay, fetchQueue, jobDetails, getJobCalls, getJobIssued,
                   trips, wfxEntries, results, i, j, scored, dayComparison,
                   dailyComparisons, summary>>

ScoreNext == ScoreCall

ScoreSpec == ScoreInit /\ [][ScoreNext]_vars

(***************************************************************************)
(* The day-level traditional comparison                                     *)
(* (TimesheetComparison.performTraditionalComparison).  Hours are in        *)
(* hundredths of an hour: the strings that toFixed(2) produces.             *)
(***************************************************************************)
\* the variables of the engine, which the other operations leave alone
engineVars == <<cfg, dayIdx, csvDay, wfxDay, fetchQueue, jobDetails, getJobCalls,
                getJobIssued, trips, wfxEntries, results, i, j, scored,
                dayComparison, dailyComparisons, summary, alerts>>

\* no run of performEnhancedComparison has started
EngineIdle ==
    /\ cfg = DefaultConfig
    /\ dayIdx = 0
    /\ csvDay = NullRec
    /\ wfxDay = NullRec
    /\ fetchQueue = <<>>
    /\ jobDetails = <<>>
    /\ getJobCalls = <<>>
    /\ getJobIssued = [id \in JobIds |-> 0]
    /\ trips = <<>>
    /\ wfxEntries = <<>>
    /\ results = EmptyResults
    /\ i = 0
    /\ j = 0
    /\ scored = <<>>
    /\ dayComparison = NullRec
    /\ dailyComparisons = <<>>
    /\ summary = InitialSummary
    /\ alerts = <<>>

MaxDates == 2      \* dates of csvData in one traditional comparison

\* config.alerts
DefaultAlerts ==
    [ timesheetDiscrepancyHours |-> 50,
      unaccountedTravelMinutes |-> 30,
      dailyDistanceThreshold |-> 200,
      missingTimesheetAlert |-> TRUE ]

\* thresholds another deployment may set
AltAlerts ==
    [ timesheetDiscrepancyHours |-> 100,
      unaccountedTravelMinutes |-> 60,
      dailyDistanceThreshold |-> 100,
      missingTimesheetAlert |-> FALSE ]

AlertsPool == {DefaultAlerts, AltAlerts}

\* "> 2": the hours above which a discrepancy is of high severity
HighDiscrepancyHours == 200

\* the value of (x).toFixed(2): a string
HoursString(hundredths) == [type |-> "string", hundredths |-> hundredths]

\* csvData[date] as processCsvData leaves it: netWorkHours is undefined for a
\* day without trip times
CsvSummaryPool ==
    { [netWorkHours |-> NullRec, workTravelTime |-> 0, totalDistance |-> 0],
      [netWorkHours |-> HoursString(0), workTravelTime |-> 20, totalDistance |-> 50],
      [netWorkHours |-> HoursString(600), workTravelTime |-> 45, totalDistance |-> 250],
      [netWorkHours |-> HoursString(650), workTravelTime |-> 20, totalDistance |-> 150],
      [netWorkHours |-> HoursString(800), workTravelTime |-> 45, totalDistance |-> 50],
      [netWorkHours |-> HoursString(850), workTravelTime |-> 75, totalDistance |-> 250] }

\* wfxData[date] as fetchWfxTimesheet groups it: absent, or a day of at least
\* one entry whose totalHours is the string of totalMinutes / 60
WfxSummaryPool ==
    { NullRec,
      [totalHours |-> HoursString(0)],
      [totalHours |-> HoursString(600)],
      [totalHours |-> HoursString(800)] }

DatePool == {[csv |-> c, wfx |-> w] : c \in CsvSummaryPool, w \in WfxSummaryPool}

\* parseFloat(x || 0) for a toFixed(2) string or undefined
parseFloatOrZero(x) == IF x = NullRec THEN 0 ELSE x.hundredths

\* x === 0: a string is never strictly equal to the number 0
StrictlyZero(x) == x.type = "number" /\ x.hundredths = 0

\* comparison.summary as performComparison creates it
InitialTraditionalSummary ==
    [ totalDays |-> 0, matchedDays |-> 0, discrepancyDays |-> 0, missingWfxDays |-> 0,
      totalCsvHours |-> 0, totalWfxHours |-> 0, totalDiscrepancyHours |-> 0,
      totalUnaccountedTravel |-> 0, accuracy |-> 0 ]

\* the severity of an hours_discrepancy alert, with ">= 2" for "> 2"
DiscrepancySeverityAtLeast(discrepancy) ==
    IF Abs(discrepancy) >= HighDiscrepancyHours THEN "high" ELSE "medium"

\* the severity of an hours_discrepancy alert
DiscrepancySeverity(discrepancy) ==
    IF Abs(discrepancy) > HighDiscrepancyHours THEN "high" ELSE "medium"

\* the status test that also takes a day of zero hours for a missing one
IsMissingWfxOrZeroHours(wfx) == wfx = NullRec \/ wfx.totalHours.hundredths = 0

\* !wfx || wfx.totalHours === 0
IsMissingWfx(wfx) == wfx = NullRec \/ StrictlyZero(wfx.totalHours)

\* the status of a day and the alerts of its status
StatusOf(a, wfx, discrepancy) ==
    IF IsMissingWfx(wfx)
    THEN [ status |-> "missing_wfx",
           alerts |-> IF a.missingTimesheetAlert
                      THEN <<[type |-> "missing_timesheet", hours |-> 0, severity |-> "none"]>>
                      ELSE <<>> ]
    ELSE IF Abs(discrepancy) > a.timesheetDiscrepancyHours
    THEN [ status |-> "discrepancy",
           alerts |-> <<[type |-> "hours_discrepancy", hours |-> Abs(discrepancy),
                         severity |-> DiscrepancySeverity(discrepancy)]>> ]
    ELSE [ status |-> "matched", alerts |-> <<>> ]

\* the travel-time and distance alerts of a day
TravelAlerts(a, csv) ==
    (IF csv.workTravelTime > a.unaccountedTravelMinutes
     THEN <<[type |-> "unaccounted_travel", hours |-> 0, severity |-> "medium"]>>
     ELSE <<>>)
    \o (IF csv.totalDistance > a.dailyDistanceThreshold
        THEN <<[type |-> "high_distance", hours |-> 0, severity |-> "low"]>>
        ELSE <<>>)

\* the dayComparison of one date, from the parsed hours and the status
TraditionalDayComparison(a, date, csv, csvHours, wfxHours, st) ==
    [ date |-> date,
      csvHours |-> csvHours,
      wfxHours |-> wfxHours,
      discrepancy |-> csvHours - wfxHours,
      status |-> st.status,
      alerts |-> st.alerts \o TravelAlerts(a, csv) ]

\* the summary after one date
TraditionalSummaryStep(a, sm, csv, dc) ==
    [sm EXCEPT
        !.totalCsvHours = @ + dc.csvHours,
        !.totalWfxHours = @ + dc.wfxHours,
        !.totalDiscrepancyHours = @ + Abs(dc.discrepancy),
        !.missingWfxDays = @ + (IF dc.status = "missing_wfx" THEN 1 ELSE 0),
        !.discrepancyDays = @ + (IF dc.status = "discrepancy" THEN 1 ELSE 0),
        !.matchedDays = @ + (IF dc.status = "matched" THEN 1 ELSE 0),
        !.totalUnaccountedTravel =
            @ + (IF csv.workTravelTime > a.unaccountedTravelMinutes
                 THEN csv.workTravelTime ELSE 0)]

\* one iteration of allDates.forEach, for the date at index k
TraditionalDate(a, date, csv, wfx) ==
    TraditionalDayComparison(a, date, csv,
        parseFloatOrZero(csv.netWorkHours),
        parseFloatOrZero(IF wfx = NullRec THEN NullRec ELSE wfx.totalHours),
        StatusOf(a, wfx,
                 parseFloatOrZero(csv.netWorkHours)
                 - parseFloatOrZero(IF wfx = NullRec THEN NullRec ELSE wfx.totalHours)))

\* the comparison after the iteration that produced dc
TraditionalFold(p, dc) ==
    [p EXCEPT
        !.k = @ + 1,
        !.dayComparison = dc,
        !.statuses = Append(@, dc.status),
        !.summary = TraditionalSummaryStep(p.alerts, @, p.dates[p.k].csv, dc)]

TraditionalInit ==
    /\ EngineIdle
    /\ pc = "traditional"
    /\ probe \in { [ alerts |-> a, dates |-> d, k |-> 1, dayComparison |-> NullRec,
                     statuses |-> <<>>, summary |-> InitialTraditionalSummary ] :
                   a \in AlertsPool, d \in SeqsUpTo(DatePool, MaxDates) }

\* performTraditionalComparison is entered: totalDays is set
TraditionalBegin ==
    /\ pc = "traditional"
    /\ probe' = [probe EXCEPT !.summary.totalDays = Len(probe.dates)]
    /\ pc' = "forEach"
    /\ UNCHANGED engineVars

\* one iteration of allDates.forEach
TraditionalStep ==
    /\ pc = "forEach"
    /\ probe.k <= Len(probe.dates)
    /\ probe' = TraditionalFold(probe,
                    TraditionalDate(probe.alerts, probe.k, probe.dates[probe.k].csv,
                                    probe.dates[probe.k].wfx))
    /\ UNCHANGED <<pc, engineVars>>

\* the loop is over: the accuracy percentage is set
TraditionalAccuracy ==
    /\ pc = "forEach"
    /\ probe.k > Len(probe.dates)
    /\ probe' = [probe EXCEPT !.summary.accuracy =
                    IF probe.summary.totalDays > 0
                    THEN PercentTenths(probe.summary.matchedDays, probe.summary.totalDays)
                    ELSE 0]
    /\ pc' = "compared"
    /\ UNCHANGED engineVars

TraditionalNext ==
    \/ TraditionalBegin
    \/ TraditionalStep
    \/ TraditionalAccuracy

TraditionalSpec == TraditionalInit /\ [][TraditionalNext]_vars

(***************************************************************************)
(* Single calls of normalizeAddress and calculateLocationMatch on address   *)
(* strings                                                                  *)
(***************************************************************************)
StreetNumbers == { <<>>, <<"1", "2", " ">>, <<"7", "B", ",", " ">> }

StreetNames == { <<"M", "a", "i", "n">>, <<"O", "a", "k", "-", "H", "i", "l", "l">>,
                 <<"S", "t", " ", "K", "i", "l", "d", "a">>, <<>> }

NameSeparators == { <<" ">>, <<",", " ", " ">> }

\* street-type words, plain, with punctuation around them and with
\* punctuation inside them
StreetSuffixes ==
    { <<>>,
      <<"S", "t">>,
      <<"S", "t", ".">>,
      <<"S", ".", "t">>,
      <<"S", "t", "r", "e", "e", "t">>,
      <<"R", "-", "d">>,
      <<"A", "v", "e", ",", " ", "N", "o", "r", "t", "h">>,
      <<"c", "'", "t", " ">> }

AddressPool ==
    { n \o m \o sep \o x :
        n \in StreetNumbers, m \in StreetNames, sep \in NameSeparators, x \in StreetSuffixes }
    \cup { <<>> }

\* addresses that name a suburb after the street, the first with a word of
\* the street repeated in the suburb
OakRoadOakPark == <<"1", "2", " ", "O", "a", "k", " ", "R", "o", "a", "d", ",", " ", "O", "a", "k", " ", "P", "a", "r", "k">>
OakLaneElmVale == <<"1", "2", " ", "O", "a", "k", " ", "L", "a", "n", "e", ",", " ", "E", "l", "m", " ", "V", "a", "l", "e">>

\* the second address of a comparison of two addresses
PairPool == {OakRoadOakPark, OakLaneElmVale, MainStreet, MainRoadNorth, <<>>}

AddressInit ==
    /\ EngineIdle
    /\ pc = "address"
    /\ probe \in { [address |-> a, normalized |-> NullStr, renormalized |-> NullStr,
                    selfMatch |-> NullRec, other |-> NullStr,
                    forward |-> NullRec, backward |-> NullRec] :
                   a \in AddressPool \cup PairPool }

\* normalizeAddress(address) returns
NormalizeCall ==
    /\ pc = "address"
    /\ probe' = [probe EXCEPT !.normalized = normalizeAddress(probe.address)]
    /\ pc' = "normalized"
    /\ UNCHANGED engineVars

\* normalizeAddress is called on its own result
NormalizeAgain ==
    /\ pc = "normalized"
    /\ probe' = [probe EXCEPT !.renormalized = normalizeAddress(probe.normalized)]
    /\ pc' = "renormalized"
    /\ UNCHANGED engineVars

\* calculateLocationMatch(address, address) returns
SelfMatchCall ==
    /\ pc = "address"
    /\ probe' = [probe EXCEPT !.selfMatch = calculateLocationMatch(probe.address, probe.address)]
    /\ pc' = "selfMatched"
    /\ UNCHANGED engineVars

\* calculateLocationMatch(address, other) and calculateLocationMatch(other,
\* address) return
PairMatchCall ==
    /\ pc = "address"
    /\ \E b \in PairPool :
          probe' = [probe EXCEPT !.other = b,
                                 !.forward = calculateLocationMatch(probe.address, b),
                                 !.backward = calculateLocationMatch(b, probe.address)]
    /\ pc' = "paired"
    /\ UNCHANGED engineVars

AddressNext ==
    \/ NormalizeCall
    \/ NormalizeAgain
    \/ SelfMatchCall
    \/ PairMatchCall

AddressSpec == AddressInit /\ [][AddressNext]_vars

(***************************************************************************)
(* TimesheetComparison.processCsvData: the classification of the trips and  *)
(* the daily summaries.  Driving times are in seconds (sixtieths of the     *)
(* minutes the code computes), hours in hundredths.                         *)
(***************************************************************************)
MaxCsvTrips == 3   \* rows of the CSV export

\* staffConfig: the part isHomeAddress reads
StaffConfig == [fullName |-> "Ali Majid", homeAddress |-> HomeAvenue]

\* config.processing.workingHours: breakAfterHours in hundredths of an hour
WorkingHours == [breakAfterHours |-> 400, breakDurationMinutes |-> 30]

AvenueRoad == <<"9", " ", "A", "v", "e", "n", "u", "e", " ", "R", "d">>

\* the trips of the CSV export, as parseCSV standardises them
CsvRow(date, from, to, started, finished) ==
    [ date |-> date, addressFrom |-> from, addressTo |-> to,
      started |-> started, finished |-> finished,
      drivingTime |-> MorningTrip.drivingTime, distance |-> 12 ]

CsvRowPool ==
    { CsvRow("D1", HomeAvenue, OakRoad, MorningTrip.started, MorningTrip.finished),
      CsvRow("D1", OakRoad, MainSt, AfternoonTrip.started, AfternoonTrip.finished),
      CsvRow("D1", MainSt, HomeAvenue, HomeTrip.started, HomeTrip.finished),
      CsvRow("D1", HomeAvenue, HomeAvenue, MorningTrip.started, HomeTrip.finished),
      CsvRow("D1", MainSt, AvenueRoad, AfternoonTrip.started, AfternoonTrip.finished),
      CsvRow("D2", OakRoad, MainSt, MorningTrip.started, MorningTrip.finished),
      CsvRow("D2", OakRoad, OakRoad, AfternoonTrip.started, AfternoonTrip.finished),
      CsvRow("D2", <<>>, MainSt, HomeTrip.started, HomeTrip.finished) }

\* csvParser.groupTripsByDate: the dates in order of first appearance, each
\* with its trips in file order
groupTripsByDate(rows) ==
    LET RECURSIVE F(_, _)
        F(k, grouped) ==
            IF k > Len(rows) THEN grouped
            ELSE F(k + 1,
                   IF \E n \in 1..Len(grouped) : grouped[n].date = rows[k].date
                   THEN [n \in 1..Len(grouped) |->
                            IF grouped[n].date = rows[k].date
                            THEN [grouped[n] EXCEPT !.trips = Append(@, rows[k])]
                            ELSE grouped[n]]
                   ELSE Append(grouped, [date |-> rows[k].date, trips |-> <<rows[k]>>]))
    IN  F(1, <<>>)

\* String.prototype.includes
Includes(s, w) == \E k \in 1..(Len(s) - Len(w) + 1) : SubSeq(s, k, k + Len(w) - 1) = w

\* String.prototype.split(/[\s,]+/)
SplitWords(s) ==
    LET RECURSIVE F(_, _, _)
        F(k, word, inSeparator) ==
            IF k > Len(s) THEN <<word>>
            ELSE IF IsSpace(s[k]) \/ s[k] = ","
                 THEN (IF inSeparator THEN <<>> ELSE <<word>>) \o F(k + 1, <<>>, TRUE)
                 ELSE F(k + 1, Append(word, s[k]), FALSE)
    IN  F(1, <<>>, FALSE)

\* the addresses of the trips in the order identifyHomeAddress counts them
CountedAddresses(rows) ==
    LET RECURSIVE F(_)
        F(k) == IF k > Len(rows) THEN <<>>
                ELSE (IF Falsy(rows[k].addressFrom) THEN <<>> ELSE <<rows[k].addressFrom>>)
                     \o (IF Falsy(rows[k].addressTo) THEN <<>> ELSE <<rows[k].addressTo>>)
                     \o F(k + 1)
    IN  F(1)

\* the first address, in order of first appearance, of the highest frequency
MostFrequent(addresses) ==
    LET Frequency(x) == Cardinality({k \in 1..Len(addresses) : addresses[k] = x})
        first == FindIndex(addresses,
                           LAMBDA x : \A k \in 1..Len(addresses) :
                                         Frequency(addresses[k]) <= Frequency(x))
    IN  IF first = 0 THEN <<>> ELSE addresses[first]

\* csvParser.identifyHomeAddress
identifyHomeAddress(rows) == MostFrequent(CountedAddresses(rows))

\* isHomeAddress: a word of more than 3 characters of the configured home
\* address occurs in the address
IsConfiguredHome(lowerAddress, configHomeWords) ==
    \E n \in 1..Len(configHomeWords) :
        Len(configHomeWords[n]) > 3 /\ Includes(lowerAddress, configHomeWords[n])

\* isHomeAddress past its cache
ComputeIsHome(address, staffConfig, allTrips) ==
    IsConfiguredHome(toLowerCase(address), SplitWords(toLowerCase(staffConfig.homeAddress)))
    \/ identifyHomeAddress(allTrips) = address

\* this.addressCache after isHomeAddress(address, ...)
CacheAfter(cache, address, staffConfig, allTrips) ==
    IF Falsy(address) \/ \E c \in cache : c.key = <<staffConfig.fullName, address>>
    THEN cache
    ELSE cache \cup {[key |-> <<staffConfig.fullName, address>>,
                      value |-> ComputeIsHome(address, staffConfig, allTrips)]}

\* isHomeAddress(address, staffConfig, allTrips) under the cache
isHomeAddress(cache, address, staffConfig, allTrips) ==
    IF Falsy(address) THEN FALSE
    ELSE IF \E c \in cache : c.key = <<staffConfig.fullName, address>>
    THEN (CHOOSE c \in cache : c.key = <<staffConfig.fullName, address>>).value
    ELSE ComputeIsHome(address, staffConfig, allTrips)

\* the classification with the test of the evening before that of the morning
ClassifyEveningFirst(fromHome, toHome, index, length) ==
    IF toHome /\ index = length - 1 THEN "personal_evening"
    ELSE IF fromHome /\ index = 0 THEN "personal_morning"
    ELSE IF fromHome \/ toHome THEN "personal_mixed"
    ELSE "work"

\* the classification of the trip at (JavaScript) index of a day of length trips
Classify(fromHome, toHome, index, length) ==
    IF fromHome /\ index = 0 THEN "personal_morning"
    ELSE IF toHome /\ index = length - 1 THEN "personal_evening"
    ELSE IF fromHome \/ toHome THEN "personal_mixed"
    ELSE "work"

\* the code unit of a character of a time string
CodeUnit(c) == IF c = ":" THEN 58 ELSE 47 + IndexOf(Digits, c)

\* a < b on two strings
RECURSIVE StringLess(_, _)
StringLess(a, b) ==
    IF b = <<>> THEN FALSE
    ELSE IF a = <<>> THEN TRUE
    ELSE IF CodeUnit(Head(a)) # CodeUnit(Head(b)) THEN CodeUnit(Head(a)) < CodeUnit(Head(b))
    ELSE StringLess(Tail(a), Tail(b))

\* csvParser.timeToMinutes of the parts of HH:MM:SS, in seconds
DrivingSecondsOf(parts) ==
    IF Len(parts) < 2 THEN 0
    ELSE NumberOrZero(parts[1]) * 3600 + NumberOrZero(parts[2]) * 60
         + (IF Len(parts) > 2 THEN NumberOrZero(parts[3]) ELSE 0)

\* csvParser.timeToMinutes, in seconds
csvTimeToMinutes(timeString) ==
    IF Falsy(timeString) THEN 0 ELSE DrivingSecondsOf(Split(timeString, ":"))

\* (minutes / 60).toFixed(2), in hundredths of an hour
HoursHundredths(minutes) == (10 * minutes + 3) \div 6

\* the summary of a date before its first trip
EmptyDaySummary(date) ==
    [ date |-> date, trips |-> <<>>, totalDistance |-> 0, totalDrivingTime |-> 0,
      workTravelTime |-> 0, personalTravelTime |-> 0,
      firstArrival |-> NullStr, lastDeparture |-> NullStr, jobSites |-> <<>>,
      netWorkHours |-> NullRec ]

\* the summary after the trip, classified and with its driving time
SummaryWithTrip(sm, trip, fromHome, toHome) ==
    [sm EXCEPT
        !.firstArrival = IF Falsy(@) \/ StringLess(trip.started, @) THEN trip.started ELSE @,
        !.lastDeparture = IF Falsy(@) \/ StringLess(@, trip.finished) THEN trip.finished ELSE @,
        !.totalDistance = @ + trip.distance,
        !.totalDrivingTime = @ + trip.drivingMinutes,
        !.workTravelTime = @ + (IF trip.classification = "work" THEN trip.drivingMinutes ELSE 0),
        !.personalTravelTime = @ + (IF trip.classification = "work" THEN 0 ELSE trip.drivingMinutes),
        !.jobSites = IF trip.classification = "work" /\ ~fromHome /\ ~toHome
                        /\ trip.addressTo \notin Range(@)
                     THEN Append(@, trip.addressTo) ELSE @,
        !.trips = Append(@, trip)]

\* the trip with its classification and the two tests that gave it
ClassifiedTrip(row, fromHome, toHome, index, length) ==
    row @@ [ classification |-> Classify(fromHome, toHome, index, length),
             drivingMinutes |-> csvTimeToMinutes(row.drivingTime),
             fromHome |-> fromHome, toHome |-> toHome, index |-> index ]

\* one iteration of trips.forEach, from the two results of isHomeAddress
TripIteration(sm, row, fromHome, toHome, index, length) ==
    SummaryWithTrip(sm, ClassifiedTrip(row, fromHome, toHome, index, length),
                    fromHome, toHome)

\* the net work hours of the day, from the minutes of its two ends
NetWorkHours(totalWorkMinutes) ==
    IF HoursHundredths(totalWorkMinutes) > WorkingHours.breakAfterHours
    THEN HoursString(HoursHundredths(totalWorkMinutes - WorkingHours.breakDurationMinutes))
    ELSE HoursString(HoursHundredths(totalWorkMinutes))

\* the summary of the date once its trips are through
ClosedDaySummary(sm) ==
    IF Falsy(sm.firstArrival) \/ Falsy(sm.lastDeparture) THEN sm
    ELSE [sm EXCEPT !.netWorkHours =
             NetWorkHours(MinutesOf[sm.lastDeparture] - MinutesOf[sm.firstArrival])]

CsvInit ==
    /\ EngineIdle
    /\ pc = "csv"
    /\ probe \in { [ csvData |-> rows, tripsByDate |-> <<>>, d |-> 0, k |-> 0,
                     summary |-> NullRec, dailySummaries |-> <<>>, addressCache |-> {} ] :
                   rows \in SeqsUpTo(CsvRowPool, MaxCsvTrips) }

\* processCsvData is entered: the trips are grouped by date
CsvGroup ==
    /\ pc = "csv"
    /\ probe' = [probe EXCEPT !.tripsByDate = groupTripsByDate(probe.csvData)]
    /\ pc' = "dates"
    /\ UNCHANGED engineVars

\* the forEach over the dates takes the next date
CsvBeginDate ==
    /\ pc = "dates"
    /\ probe.d < Len(probe.tripsByDate)
    /\ probe' = [probe EXCEPT !.d = @ + 1, !.k = 1,
                              !.summary = EmptyDaySummary(probe.tripsByDate[probe.d + 1].date)]
    /\ pc' = "trips"
    /\ UNCHANGED engineVars

\* one iteration of trips.forEach: the trip is classified and added up
CsvTrip ==
    /\ pc = "trips"
    /\ probe.k <= Len(probe.tripsByDate[probe.d].trips)
    /\ probe' =
        [probe EXCEPT
            !.k = @ + 1,
            !.summary =
                TripIteration(@, probe.tripsByDate[probe.d].trips[probe.k],
                    isHomeAddress(probe.addressCache,
                                  probe.tripsByDate[probe.d].trips[probe.k].addressFrom,
                                  StaffConfig, probe.csvData),
                    isHomeAddress(CacheAfter(probe.addressCache,
                                      probe.tripsByDate[probe.d].trips[probe.k].addressFrom,
                                      StaffConfig, probe.csvData),
                                  probe.tripsByDate[probe.d].trips[probe.k].addressTo,
                                  StaffConfig, probe.csvData),
                    probe.k - 1, Len(probe.tripsByDate[probe.d].trips)),
            !.addressCache =
                CacheAfter(CacheAfter(@, probe.tripsByDate[probe.d].trips[probe.k].addressFrom,
                                      StaffConfig, probe.csvData),
                           probe.tripsByDate[probe.d].trips[probe.k].addressTo,
                           StaffConfig, probe.csvData)]
    /\ UNCHANGED <<pc, engineVars>>

\* the trips of the date are through: its work hours are computed and the
\* summary is stored
CsvEndDate ==
    /\ pc = "trips"
    /\ probe.k > Len(probe.tripsByDate[probe.d].trips)
    /\ probe' = [probe EXCEPT !.dailySummaries = Append(@, ClosedDaySummary(probe.summary))]
    /\ pc' = "dates"
    /\ UNCHANGED engineVars

\* processCsvData returns dailySummaries
CsvReturn ==
    /\ pc = "dates"
    /\ probe.d >= Len(probe.tripsByDate)
    /\ pc' = "summaries"
    /\ UNCHANGED <<probe, engineVars>>

CsvNext ==
    \/ CsvGroup
    \/ CsvBeginDate
    \/ CsvTrip
    \/ CsvEndDate
    \/ CsvReturn

CsvSpec == CsvInit /\ [][CsvNext]_vars

(***************************************************************************)
(* generateEnhancedAlerts over the results of performEnhancedComparison,    *)
(* each day entering as the DayComparison that matchJobsForDay returned     *)
(***************************************************************************)
MaxRecords == 2    \* job matches of one returned DayComparison
MaxUnmatched == 1  \* unmatched trips, and unmatched entries, of one DayComparison

\* the discrepancy lists a day with n job matches can carry: a match adds at
\* most one record to each list
SeverityLists(n) ==
    {[k \in 1..Len(sv) |-> [severity |-> sv[k]]] : sv \in SeqsUpTo({"medium", "high"}, n)}

\* the DayComparisons matchJobsForDay can return for a date, by the sizes of
\* their lists
DayComparisonsOf(date) ==
    UNION {
      { [ date |-> date,
          jobMatches |-> [k \in 1..n |-> NullRec],
          unmatchedTrips |-> [k \in 1..ut |-> NullRec],
          unmatchedWfxEntries |-> [k \in 1..uw |-> NullRec],
          timeDiscrepancies |-> td,
          locationIssues |-> li ] :
        ut \in 0..MaxUnmatched, uw \in 0..MaxUnmatched,
        td \in SeverityLists(n), li \in SeverityLists(n) } : n \in 0..MaxRecords }

\* one turn of the for-of loop of performEnhancedComparison
DayReturned ==
    /\ pc = "nextDay"
    /\ dayIdx < MaxDays
    /\ dayIdx' = dayIdx + 1
    /\ \E dc \in DayComparisonsOf(dayIdx + 1) :
          /\ dayComparison' = dc
          /\ dailyComparisons' = Append(dailyComparisons, StoredDay(dc))
          /\ summary' = updateSummaryStats(summary, dc)
    /\ UNCHANGED <<probe, alerts, cfg, pc, csvDay, wfxDay, fetchQueue, jobDetails,
                   getJobCalls, getJobIssued, trips, wfxEntries, results, i, j, scored>>

AlertNext ==
    \/ DayReturned
    \/ FinishRun
    \/ GenerateAlerts

AlertSpec == Init /\ [][AlertNext]_vars

(***************************************************************************)
(* performComparison: the traditional comparison, then the enhanced job     *)
(* matching, which returns, is skipped, or throws                           *)
(***************************************************************************)
\* comparison.summary as performComparison builds it
InitialComparisonSummary ==
    [ totalDays |-> 0, matchedDays |-> 0, discrepancyDays |-> 0, missingWfxDays |-> 0,
      totalCsvHours |-> 0, totalWfxHours |-> 0, totalDiscrepancyHours |-> 0,
      totalUnaccountedTravel |-> 0, accuracy |-> 0,
      jobMatchAccuracy |-> 0, locationMatchAccuracy |-> 0, timeMatchAccuracy |-> 0,
      unmatchedJobs |-> 0, unmatchedTrips |-> 0 ]

\* DayComparisons the job matcher returns for a date: nothing to report, one
\* match far off in time and place, a trip and an entry left unmatched
EnhancedDays(date) ==
    { [ date |-> date, jobMatches |-> <<>>, unmatchedTrips |-> <<>>,
        unmatchedWfxEntries |-> <<>>, timeDiscrepancies |-> <<>>, locationIssues |-> <<>> ],
      [ date |-> date, jobMatches |-> <<NullRec>>, unmatchedTrips |-> <<>>,
        unmatchedWfxEntries |-> <<>>,
        timeDiscrepancies |-> <<[severity |-> "high"]>>,
        locationIssues |-> <<[severity |-> "high"]>> ],
      [ date |-> date, jobMatches |-> <<NullRec>>, unmatchedTrips |-> <<NullRec>>,
        unmatchedWfxEntries |-> <<NullRec, NullRec>>,
        timeDiscrepancies |-> <<>>, locationIssues |-> <<>> ] }

\* the days performEnhancedComparison can return for n dates
EnhancedRuns(n) ==
    {days \in SeqsUpTo(UNION {EnhancedDays(d) : d \in 1..n}, n) :
        /\ Len(days) = n
        /\ \A k \in 1..n : days[k].date = k}

\* the summary of performEnhancedComparison over the days from index k on
RECURSIVE EnhancedSummary(_, _, _)
EnhancedSummary(sm, days, k) ==
    IF k > Len(days)
    THEN calculateAccuracyMetrics([sm EXCEPT !.totalDays = Len(days)])
    ELSE EnhancedSummary(updateSummaryStats(sm, days[k]), days, k + 1)

\* a merge that takes the job-level accuracy for the accuracy of the days too
mergeEnhancedMetricsAndAccuracy(sm, enhancedSummary) ==
    [sm EXCEPT
        !.accuracy = enhancedSummary.locationMatchAccuracy,
        !.jobMatchAccuracy = enhancedSummary.locationMatchAccuracy,
        !.locationMatchAccuracy = enhancedSummary.locationMatchAccuracy,
        !.timeMatchAccuracy = enhancedSummary.timeMatchAccuracy,
        !.unmatchedJobs = enhancedSummary.unmatchedWfxEntries,
        !.unmatchedTrips = enhancedSummary.unmatchedTrips]

\* mergeEnhancedMetrics
mergeEnhancedMetrics(sm, enhancedSummary) ==
    [sm EXCEPT
        !.jobMatchAccuracy = enhancedSummary.locationMatchAccuracy,
        !.locationMatchAccuracy = enhancedSummary.locationMatchAccuracy,
        !.timeMatchAccuracy = enhancedSummary.timeMatchAccuracy,
        !.unmatchedJobs = enhancedSummary.unmatchedWfxEntries,
        !.unmatchedTrips = enhancedSummary.unmatchedTrips]

\* Object.keys(wfxData).length > 0 can hold for the dates of csvData and for
\* dates csvData does not have
HasWfxDataOf(dates) ==
    IF \E k \in 1..Len(dates) : dates[k].wfx # NullRec THEN {TRUE} ELSE BOOLEAN

ComparisonInit ==
    /\ EngineIdle
    /\ pc = "traditional"
    /\ probe \in UNION {
          { [ alerts |-> a, dates |-> d, k |-> 1, dayComparison |-> NullRec,
              statuses |-> <<>>, summary |-> InitialComparisonSummary,
              hasWfxData |-> h, enhanced |-> "pending" ] :
            a \in AlertsPool, h \in HasWfxDataOf(d) } : d \in SeqsUpTo(DatePool, MaxDates) }

\* the steps of the try block once performEnhancedComparison has returned the
\* given days: the results are kept, merged, and turned into alerts
EnhancedMerged(days, enhancedSummary) ==
    /\ dailyComparisons' = [k \in 1..Len(days) |-> StoredDay(days[k])]
    /\ summary' = enhancedSummary
    /\ probe' = [probe EXCEPT !.summary = mergeEnhancedMetrics(@, enhancedSummary),
                              !.enhanced = "merged"]
    /\ alerts' = generateEnhancedAlerts(alerts, enhancedSummary,
                                        [k \in 1..Len(days) |-> StoredDay(days[k])])

\* hasWfxData holds and performEnhancedComparison returns
EnhancedReturns ==
    /\ pc = "compared"
    /\ probe.hasWfxData
    /\ \E days \in EnhancedRuns(Len(probe.dates)) :
          EnhancedMerged(days, EnhancedSummary(InitialSummary, days, 1))
    /\ pc' = "returned"
    /\ UNCHANGED <<cfg, dayIdx, csvDay, wfxDay, fetchQueue, jobDetails, getJobCalls,
                   getJobIssued, trips, wfxEntries, results, i, j, scored, dayComparison>>

\* hasWfxData holds and performEnhancedComparison throws: the catch block
\* warns and the comparison is returned as it is
EnhancedThrows ==
    /\ pc = "compared"
    /\ probe.hasWfxData
    /\ probe' = [probe EXCEPT !.enhanced = "threw"]
    /\ pc' = "returned"
    /\ UNCHANGED engineVars

\* wfxData has no date: the enhanced matching is skipped
EnhancedSkipped ==
    /\ pc = "compared"
    /\ ~probe.hasWfxData
    /\ probe' = [probe EXCEPT !.enhanced = "skipped"]
    /\ pc' = "returned"
    /\ UNCHANGED engineVars

ComparisonNext ==
    \/ TraditionalBegin
    \/ TraditionalStep
    \/ TraditionalAccuracy
    \/ EnhancedReturns
    \/ EnhancedThrows
    \/ EnhancedSkipped

ComparisonSpec == ComparisonInit /\ [][ComparisonNext]_vars

(***************************************************************************)
(* performEnhancedComparison on given csvData and wfxData maps: mornings    *)
(* on site, under three configurations                                      *)
(***************************************************************************)
MaxVisitDates == 1    \* dates of csvData
MaxVisitTrips == 2    \* trips of one date
MaxVisitEntries == 2  \* timesheet entries of one date

\* a deployment with tighter tolerances for distance and looser ones for time
TightConfig ==
    [ minimumMatchConfidence |-> 600,
      fuzzyMatchThreshold |-> 400,
      maxTimeOffsetMinutes |-> 45,
      maxLocationDistanceKm |-> 5,
      locationWeight |-> 500,
      timeWeight |-> 300,
      durationWeight |-> 100,
      jobTypeWeight |-> 100 ]

VisitConfigs == {DefaultConfig, AltConfig, TightConfig}

\* the dates a map can hold
VisitDates == {"D1", "D2"}

VisitTripLists ==
    {[k \in 1..Len(t) |-> [tid |-> k] @@ t[k]] : t \in SeqsUpTo(VisitTripPool, MaxVisitTrips)}

VisitWfxDays ==
    {NullRec} \cup
    {[entries |-> [k \in 1..Len(e) |-> [oid |-> k] @@ e[k]]] :
        e \in SeqsUpTo(VisitEntryPool, MaxVisitEntries) \ {<<>>}}

\* csvData: its dates in insertion order, each with its trips
VisitCsvData ==
    {c \in SeqsUpTo([date : VisitDates, trips : VisitTripLists], MaxVisitDates) :
        \A a, b \in 1..Len(c) : a # b => c[a].date # c[b].date}

\* wfxData: for each date its summary, or none
VisitWfxData == [VisitDates -> VisitWfxDays]

VisitInit ==
    /\ cfg \in VisitConfigs
    /\ pc = "nextDay"
    /\ dayIdx = 0
    /\ csvDay = NullRec
    /\ wfxDay = NullRec
    /\ fetchQueue = <<>>
    /\ jobDetails = <<>>
    /\ getJobCalls = <<>>
    /\ getJobIssued = [id \in JobIds |-> 0]
    /\ trips = <<>>
    /\ wfxEntries = <<>>
    /\ results = EmptyResults
    /\ i = 0
    /\ j = 0
    /\ scored = <<>>
    /\ dayComparison = NullRec
    /\ dailyComparisons = <<>>
    /\ summary = InitialSummary
    /\ alerts = <<>>
    /\ probe \in [csvData : VisitCsvData, wfxData : VisitWfxData]

\* the next entry of csvData taken with the timesheet day of any date
BeginVisitDayAnyDate ==
    /\ dayIdx < Len(probe.csvData)
    /\ \E d \in DOMAIN probe.wfxData :
          BeginDayWith(probe.csvData[dayIdx + 1].trips, probe.wfxData[d])

\* const wfx = wfxData[date] for the next entry of csvData
BeginVisitDay ==
    /\ dayIdx < Len(probe.csvData)
    /\ BeginDayWith(probe.csvData[dayIdx + 1].trips,
                    probe.wfxData[probe.csvData[dayIdx + 1].date])

\* the for-of loop has taken every entry of csvData
FinishVisitRun ==
    /\ dayIdx = Len(probe.csvData)
    /\ FinishRun

VisitNext ==
    \/ BeginVisitDay
    \/ GetJobResolves
    \/ GetJobThrows
    \/ StartMatching
    \/ ConfidentStep
    \/ FuzzyStep
    \/ FinishDay
    \/ FinishVisitRun
    \/ GenerateAlerts

VisitSpec == VisitInit /\ [][VisitNext]_vars

(***************************************************************************)
(* performEnhancedComparison over several dates: csvData in an insertion    *)
(* order that is not the order of the dates, wfxData with dates that        *)
(* csvData does not have                                                    *)
(***************************************************************************)
MaxTripDates == 3   \* dates of csvData

DateKeys == {"D1", "D2", "D3"}

\* the trips of one date: none, or one trip to the job or near it
DateTripLists == {<<>>} \cup {<<[tid |-> 1] @@ t>> : t \in VisitTripPool}

\* the timesheet day of a date: one entry, whose id names the date
DateWfxDay(date) ==
    [entries |-> <<[oid |-> 1] @@ [NearStartEntry EXCEPT !.id = date]>>]

DatesCsvData ==
    {c \in SeqsUpTo([date : DateKeys, trips : DateTripLists], MaxTripDates) :
        \A a, b \in 1..Len(c) : a # b => c[a].date # c[b].date}

DatesWfxData ==
    {[d \in DateKeys |-> IF d \in present THEN DateWfxDay(d) ELSE NullRec] :
        present \in SUBSET DateKeys}

DatesInit ==
    /\ EngineIdle
    /\ pc = "nextDay"
    /\ probe \in [csvData : DatesCsvData, wfxData : DatesWfxData]

DatesSpec == DatesInit /\ [][VisitNext]_vars

(***************************************************************************)
(* Properties                                                               *)
(***************************************************************************)
CountIn(s, P(_)) == Len(Filter(s, P))

\* matchJobsForDay has returned for the day held in csvDay / wfxDay
DayFinished == dayComparison # NullRec

HasEntries == wfxDay # NullRec /\ Len(wfxDay.entries) > 0

\* performJobMatching is at work on results
Matching == pc \in {"confident", "fuzzy", "threw"} \/ (pc = "finish" /\ HasEntries)

IsFuzzy(m) == "fuzzy_match" \in Range(m.matchCriteria)

\* C1: after matchJobsForDay finishes for a day that has timesheet entries,
\* every TimesheetEntry of the day is the wfxEntry of exactly one JobMatch or
\* is in unmatchedWfxEntries: in exactly one place.
C1_EntriesInExactlyOnePlace ==
    (DayFinished /\ HasEntries) =>
        \A k \in 1..Len(wfxDay.entries) :
            CountIn(dayComparison.jobMatches, LAMBDA m : m.wfxEntry.oid = k)
            + CountIn(dayComparison.unmatchedWfxEntries, LAMBDA e : e.oid = k) = 1

TripsInExactlyOnePlace(matched, unmatched) ==
    /\ \A k \in 1..Len(csvDay.trips) :
          CountIn(matched, LAMBDA m : m.trip.tid = k)
          + CountIn(unmatched, LAMBDA t : t.tid = k)
          = (IF IsWork(csvDay.trips[k]) THEN 1 ELSE 0)
    /\ \A k \in 1..Len(unmatched) : unmatched[k] = csvDay.trips[unmatched[k].tid]
    /\ \A k \in 1..Len(matched) : matched[k].trip = csvDay.trips[matched[k].trip.tid]

\* C2: every work-classified Trip of the day is the trip of exactly one
\* JobMatch or is in unmatchedTrips, after every iteration of the confident
\* pass, after every iteration of the fuzzy pass and in the DayComparison that
\* matchJobsForDay returns; no other trip is in either place.
C2_TripsInExactlyOnePlace ==
    /\ Matching => TripsInExactlyOnePlace(results.matched, results.unmatchedTrips)
    /\ DayFinished =>
          TripsInExactlyOnePlace(dayComparison.jobMatches, dayComparison.unmatchedTrips)

\* a returned day in which both passes committed a JobMatch and spliced the pool
C2_Witness ==
    /\ DayFinished
    /\ \E a, b \in 1..Len(dayComparison.jobMatches) :
          /\ dayComparison.jobMatches[a].pass = "confident"
          /\ dayComparison.jobMatches[b].pass = "fuzzy"

\* C3: no JobMatch of the confident pass has a confidence below
\* minimumMatchConfidence and no JobMatch of the fuzzy pass has a confidence
\* below fuzzyMatchThreshold, for the configuration in force.
C3_ThresholdsHonoured ==
    \A k \in 1..Len(results.matched) :
        LET m == results.matched[k]
        IN  /\ m.pass = "confident" => m.confidence >= cfg.minimumMatchConfidence
            /\ m.pass = "fuzzy" => m.confidence >= cfg.fuzzyMatchThreshold

\* both passes have committed, the fuzzy one below the confident threshold
C3_Witness ==
    /\ pc = "finish"
    /\ \E a, b \in 1..Len(results.matched) :
          /\ results.matched[a].pass = "confident"
          /\ results.matched[b].pass = "fuzzy"
          /\ results.matched[b].confidence < cfg.minimumMatchConfidence

\* the item a confident commit removes from unmatchedWfxEntries is the entry it
\* committed
ConfidentRemovalExact ==
    (pc = "confident" /\ Len(results'.matched) > Len(results.matched)) =>
        LET committed == results'.matched[Len(results'.matched)].wfxEntry
        IN  \E k \in 1..Len(results.unmatchedWfxEntries) :
              /\ results.unmatchedWfxEntries[k].oid = committed.oid
              /\ results'.unmatchedWfxEntries = RemoveAt(results.unmatchedWfxEntries, k)

NoFuzzyDuplicate ==
    \A a, b \in 1..Len(results.matched) :
        (results.matched[a].pass = "confident" /\ IsFuzzy(results.matched[b])) =>
            /\ results.matched[a].trip.tid # results.matched[b].trip.tid
            /\ results.matched[a].wfxEntry.oid # results.matched[b].wfxEntry.oid

\* C4: no Trip and no TimesheetEntry of a confident JobMatch is part of a
\* JobMatch tagged fuzzy_match, and every confident commit removes exactly the
\* committed entry from unmatchedWfxEntries, whatever the id fields hold.
C4_FuzzyNeverDuplicatesConfident ==
    [](NoFuzzyDuplicate) /\ [][ConfidentRemovalExact]_vars

\* C5: for weights in [0,1] whose sum is at most 1 and non-negative entry
\* minutes, calculateMatchScore of any trip and any entry with resolved
\* JobDetails returns confidence, locationMatch and timeMatch in [0,1].
C5_ScoresInUnitInterval ==
    (probe # NullRec /\ probe.score # NullRec) =>
        /\ 0 <= probe.score.confidence /\ probe.score.confidence <= 1000
        /\ QInUnit(probe.score.locationMatch)
        /\ QInUnit(probe.score.timeMatch)

\* a call that reaches the confidence 1 on a partial time overlap
C5_Witness ==
    /\ probe # NullRec
    /\ probe.score # NullRec
    /\ probe.score.confidence = 1000
    /\ 0 < probe.score.timeMatch[1]
    /\ probe.score.timeMatch[1] < probe.score.timeMatch[2]

\* C6: no exception leaves performEnhancedComparison: a day whose matching
\* fails does not stop the run, which goes on to the other days and returns.
C6_NoExceptionLeavesRun == pc # "threw"

\* the entry of the pool in progress with identity oid
EntryByOid(oid) == wfxEntries[FindIndex(wfxEntries, LAMBDA e : e.oid = oid)]

\* C7: an entry whose jobDetails is null is never handed to
\* calculateMatchScore, in either pass, and the day's matching does not throw.
C7_UnresolvedNeverScored ==
    /\ \A k \in 1..Len(scored) : EntryByOid(scored[k][3]).jobDetails # NullRec
    /\ pc # "threw"

IsPlaceholder(d) == d.address = NullStr /\ d.description = "Job details unavailable"

\* C8: when a lookup throws in fetchJobDetails the id maps to the placeholder,
\* every other id of the day is still looked up, the day's matching does not
\* throw and a JobMatch of an entry with the placeholder has location score 0.
C8_LookupFailureIsolated ==
    (\E k \in 1..Len(jobDetails) : IsPlaceholder(jobDetails[k])) =>
        /\ pc # "fetch" => getJobCalls = uniqueJobIds(wfxDay.entries)
        /\ \A k \in 1..Len(results.matched) :
              IsPlaceholder(results.matched[k].wfxEntry.jobDetails) =>
                  results.matched[k].locationMatch = <<0, 1>>
        /\ pc # "threw"

\* C9: for a day without a timesheet summary, or with a summary of zero
\* entries, matchJobsForDay returns without a lookup, a scoring or an
\* exception, and its DayComparison holds exactly the day's work trips in
\* unmatchedTrips and nothing else.
C9_NoTimesheetDay ==
    (csvDay # NullRec /\ ~HasEntries) =>
        /\ pc \in {"finish", "nextDay", "done", "alerted"}
        /\ getJobCalls = <<>>
        /\ scored = <<>>
        /\ DayFinished =>
              /\ dayComparison.unmatchedTrips = Filter(csvDay.trips, IsWork)
              /\ dayComparison.jobMatches = <<>>
              /\ dayComparison.unmatchedWfxEntries = <<>>
              /\ dayComparison.timeDiscrepancies = <<>>
              /\ dayComparison.locationIssues = <<>>

\* a returned day of two work trips whose summary has zero entries
C9_Witness ==
    /\ DayFinished
    /\ wfxDay # NullRec
    /\ Len(wfxDay.entries) = 0
    /\ Len(dayComparison.unmatchedTrips) = 2

\* the day of one trip 09:00-10:00 to "123 Main St" and one entry of 55 minutes
\* from 09:05 for the job at "123 Main Street", under the default configuration
StreetSuffixDay ==
    /\ cfg = DefaultConfig
    /\ csvDay # NullRec
    /\ csvDay.trips = <<[tid |-> 1] @@ MorningTrip>>
    /\ wfxDay # NullRec
    /\ wfxDay.entries = <<[oid |-> 1] @@ MainStreetEntry>>
    /\ jobDetails = <<FetchedDetails("J1")>>

\* C10: in that day the pair scores location 1.0 and time overlap above 0.8,
\* carries exact_location and time_overlap, has confidence at least 0.7 and
\* is the one JobMatch of the day, committed by the confident pass.
C10_StreetSuffixScenario ==
    (StreetSuffixDay /\ DayFinished) =>
        /\ Len(dayComparison.jobMatches) = 1
        /\ dayComparison.unmatchedTrips = <<>>
        /\ dayComparison.unmatchedWfxEntries = <<>>
        /\ LET m == dayComparison.jobMatches[1]
           IN  /\ m.pass = "confident"
               /\ m.trip.tid = 1
               /\ m.wfxEntry.oid = 1
               /\ m.locationMatch = <<1, 1>>
               /\ QGreater(m.timeMatch, 8, 10)
               /\ {"exact_location", "time_overlap"} \subseteq Range(m.matchCriteria)
               /\ m.confidence >= 700

C10_Witness == StreetSuffixDay /\ DayFinished /\ Len(dayComparison.jobMatches) = 1

\* C11: over one run wfxClient.getJob is issued at most once per distinct job
\* id, however many days reference the id and whether the lookup resolved or
\* threw.
C11_LookupOncePerRun ==
    \A id \in JobIds : getJobIssued[id] <= 1

\* the sum of one count over the days folded so far
RECURSIVE SumOfDays(_, _)
SumOfDays(days, field) ==
    IF days = <<>> THEN 0 ELSE days[1][field] + SumOfDays(Tail(days), field)

\* acc (in tenths of a percent) is part / total x 100 to one decimal, 0 for an
\* empty total
IsRoundedPercent(acc, part, total) ==
    IF total = 0 THEN acc = 0
    ELSE 2 * Abs(acc * total - 1000 * part) <= total

\* acc (in tenths of a percent) is part / total x 100 exactly
IsExactPercent(acc, part, total) ==
    IF total = 0 THEN acc = 0 ELSE acc * total = 1000 * part

\* the summary of the scenario: 8 matched jobs and 2 unmatched entries
ScenarioSummary ==
    [InitialSummary EXCEPT !.matchedJobs = 8, !.unmatchedWfxEntries = 2]

\* C12 (amended): once performEnhancedComparison has returned, the three
\* counters of the summary are the sums of the lengths of the folded days'
\* lists, each accuracy is its quotient x 100 rounded to one decimal (0 for an
\* empty denominator) and lies in [0, 100], and 8 matched jobs with 2
\* unmatched entries give 80.0.
C12_SummaryRounded ==
    /\ calculateAccuracyMetrics(ScenarioSummary).locationMatchAccuracy = 800
    /\ pc = "done" =>
        /\ summary.totalDays = Len(dailyComparisons)
        /\ summary.matchedJobs = SumOfDays(dailyComparisons, "jobMatches")
        /\ summary.unmatchedTrips = SumOfDays(dailyComparisons, "unmatchedTrips")
        /\ summary.unmatchedWfxEntries = SumOfDays(dailyComparisons, "unmatchedWfxEntries")
        /\ IsRoundedPercent(summary.locationMatchAccuracy, summary.matchedJobs,
                            summary.matchedJobs + summary.unmatchedWfxEntries)
        /\ IsRoundedPercent(summary.timeMatchAccuracy, summary.matchedJobs,
                            summary.matchedJobs + summary.unmatchedTrips)
        /\ summary.locationMatchAccuracy \in 0..1000
        /\ summary.timeMatchAccuracy \in 0..1000

\* a run that returned with one job matched out of three entries: 33.3
C12_Witness ==
    /\ pc = "done"
    /\ summary.matchedJobs = 1
    /\ summary.unmatchedWfxEntries = 2
    /\ summary.locationMatchAccuracy = 333

\* C12 as stated: each accuracy is exactly its quotient x 100
C12_SummaryExact ==
    pc = "done" =>
        /\ IsExactPercent(summary.locationMatchAccuracy, summary.matchedJobs,
                          summary.matchedJobs + summary.unmatchedWfxEntries)
        /\ IsExactPercent(summary.timeMatchAccuracy, summary.matchedJobs,
                          summary.matchedJobs + summary.unmatchedTrips)

\* the status the rule gives the date at index k of the comparison in probe
RuleStatus(k) ==
    LET d == probe.dates[k]
        csvHours == IF d.csv.netWorkHours = NullRec THEN 0 ELSE d.csv.netWorkHours.hundredths
        wfxHours == IF d.wfx = NullRec THEN 0 ELSE d.wfx.totalHours.hundredths
    IN  IF d.wfx = NullRec THEN "missing_wfx"
        ELSE IF Abs(csvHours - wfxHours) > probe.alerts.timesheetDiscrepancyHours
        THEN "discrepancy"
        ELSE "matched"

CountStatus(st) == CountIn(probe.statuses, LAMBDA x : x = st)

\* C13: every date gets exactly one status: missing_wfx without a timesheet
\* entry, else discrepancy when the hours differ by more than the configured
\* threshold (severity high above 2 hours, medium otherwise), else matched;
\* the three counters count these statuses and sum to totalDays.
C13_TraditionalStatus ==
    pc \in {"forEach", "compared"} =>
        /\ \A k \in 1..Len(probe.statuses) : probe.statuses[k] = RuleStatus(k)
        /\ probe.dayComparison # NullRec =>
              LET dc == probe.dayComparison
                  hd == Filter(dc.alerts, LAMBDA al : al.type = "hours_discrepancy")
              IN  /\ dc.status = RuleStatus(dc.date)
                  /\ Len(hd) = (IF dc.status = "discrepancy" THEN 1 ELSE 0)
                  /\ \A n \in 1..Len(hd) :
                        hd[n].severity = (IF Abs(dc.discrepancy) > 200 THEN "high" ELSE "medium")
        /\ probe.summary.matchedDays = CountStatus("matched")
        /\ probe.summary.discrepancyDays = CountStatus("discrepancy")
        /\ probe.summary.missingWfxDays = CountStatus("missing_wfx")
        /\ pc = "compared" =>
              probe.summary.matchedDays + probe.summary.discrepancyDays
                  + probe.summary.missingWfxDays = probe.summary.totalDays

\* a finished comparison of two dates, one a high discrepancy, the other a
\* day of entries that total zero hours
C13_Witness ==
    /\ pc = "compared"
    /\ probe.summary.totalDays = 2
    /\ probe.summary.discrepancyDays = 1
    /\ probe.summary.matchedDays = 1
    /\ probe.dates[2].wfx # NullRec
    /\ probe.dates[2].wfx.totalHours.hundredths = 0
    /\ probe.summary.totalDiscrepancyHours > 200
    /\ probe.summary.totalUnaccountedTravel > 0

\* the iteration just made was for a day of 8.00 net hours from the trips and
\* 6.00 hours on the timesheet, under the threshold of 0.5 hours
ScenarioDay ==
    /\ pc \in {"forEach", "compared"}
    /\ probe.dayComparison # NullRec
    /\ probe.alerts.timesheetDiscrepancyHours = 50
    /\ probe.dayComparison.csvHours = 800
    /\ probe.dayComparison.wfxHours = 600
    /\ probe.dates[probe.dayComparison.date].wfx # NullRec

\* the day has exactly one hours_discrepancy alert, of severity sev
HoursAlertOfSeverity(sev) ==
    LET hd == Filter(probe.dayComparison.alerts, LAMBDA al : al.type = "hours_discrepancy")
    IN  Len(hd) = 1 /\ hd[1].severity = sev /\ hd[1].hours = 200

\* C14 (amended): a day with csvNetHours = 8.0 and wfxTotalHours = 6.0 under
\* threshold 0.5 gets status discrepancy and an hours_discrepancy alert of
\* severity medium (a difference of 2.0 is not above 2).
C14_ScenarioIsMedium ==
    ScenarioDay =>
        /\ probe.dayComparison.status = "discrepancy"
        /\ HoursAlertOfSeverity("medium")

C14_Witness ==
    /\ ScenarioDay
    /\ probe.dayComparison.discrepancy = 200
    /\ probe.dayComparison.status = "discrepancy"

\* C14 as stated: the alert of the scenario is of severity high
C14_ScenarioIsHigh ==
    ScenarioDay =>
        /\ probe.dayComparison.status = "discrepancy"
        /\ HoursAlertOfSeverity("high")

\* C15: normalizeAddress is idempotent: normalising the result of
\* normalizeAddress gives that result again, for every address string.
C15_NormalizeIdempotent ==
    pc = "renormalized" => probe.renormalized = probe.normalized

\* C16: for every non-empty address a, calculateLocationMatch(a, a) returns
\* score 1.0 and distanceKm 0.
C16_SelfSimilarity ==
    (pc = "selfMatched" /\ probe.address # <<>>) =>
        probe.selfMatch = [score |-> <<1, 1>>, distanceKm |-> <<0, 1>>]

\* the call was made on an address that holds a name and a street type
C16_Witness ==
    /\ pc = "selfMatched"
    /\ Len(probe.address) > 10
    /\ probe.selfMatch.score = <<1, 1>>

\* the trips classified so far by processCsvData: those of the stored
\* summaries and those of the date in progress
ClassifiedTrips ==
    LET RECURSIVE F(_)
        F(n) == IF n > Len(probe.dailySummaries) THEN <<>>
                ELSE probe.dailySummaries[n].trips \o F(n + 1)
    IN  F(1) \o (IF pc = "trips" THEN probe.summary.trips ELSE <<>>)

\* the number of trips of the date of trip t
TripsOfDate(t) == CountIn(probe.csvData, LAMBDA r : r.date = t.date)

AllClassifications == {"personal_morning", "personal_evening", "personal_mixed", "work"}

\* C17: every trip gets exactly one classification, by the first rule that
\* applies: from home and first of its day -> personal_morning; to home and
\* last of its day -> personal_evening; home at either end -> personal_mixed;
\* otherwise work.  A trip is work exactly when neither end is home, and a
\* single-trip day that starts at home is personal_morning.
C17_Classification ==
    pc \in {"dates", "trips", "summaries"} =>
        /\ \A n \in 1..Len(ClassifiedTrips) :
            LET t == ClassifiedTrips[n]
                first == t.index = 0
                last == t.index = TripsOfDate(t) - 1
            IN  /\ t.classification \in AllClassifications
                /\ t.classification = "personal_morning" <=> (t.fromHome /\ first)
                /\ t.classification = "personal_evening" <=>
                       (~(t.fromHome /\ first) /\ t.toHome /\ last)
                /\ t.classification = "personal_mixed" <=>
                       (~(t.fromHome /\ first) /\ ~(t.toHome /\ last)
                        /\ (t.fromHome \/ t.toHome))
                /\ t.classification = "work" <=> (~t.fromHome /\ ~t.toHome)
                /\ (TripsOfDate(t) = 1 /\ t.fromHome) => t.classification = "personal_morning"
        /\ pc = "summaries" => Len(ClassifiedTrips) = Len(probe.csvData)

\* processCsvData has returned for a day whose only trip starts and ends at
\* home and for a day whose trip touches no home address
C17_Witness ==
    /\ pc = "summaries"
    /\ \E n \in 1..Len(ClassifiedTrips) :
          /\ ClassifiedTrips[n].fromHome /\ ClassifiedTrips[n].toHome
          /\ TripsOfDate(ClassifiedTrips[n]) = 1
          /\ ClassifiedTrips[n].classification = "personal_morning"
    /\ \E n \in 1..Len(ClassifiedTrips) : ClassifiedTrips[n].classification = "work"

\* the alerts of one type, by position
AlertsOf(type) == {k \in 1..Len(alerts) : alerts[k].type = type}

\* the place of an alert in the order of derivation: the four alerts of the
\* summary, then for each day its time alert and its location alert
AlertRank(a) ==
    CASE a.type = "low_location_accuracy" -> 0
      [] a.type = "low_time_accuracy" -> 1
      [] a.type = "unmatched_work_trips" -> 2
      [] a.type = "unmatched_wfx_jobs" -> 3
      [] a.type = "significant_time_discrepancy" -> 2 + 2 * a.date
      [] a.type = "significant_location_discrepancy" -> 3 + 2 * a.date

\* exactly when the condition holds there is one alert of the type, and it
\* has the severity and carries the number
SummaryAlertIff(type, condition, severity, number) ==
    IF condition
    THEN \E k \in 1..Len(alerts) :
            /\ AlertsOf(type) = {k}
            /\ alerts[k].severity = severity
            /\ alerts[k].count = number
    ELSE AlertsOf(type) = {}

\* exactly when the list of the day holds a high-severity record there is one
\* high alert of the type for the day, and it carries their number
DayAlertIff(type, date, severities) ==
    LET here == {k \in AlertsOf(type) : alerts[k].date = date}
        high == CountIn(severities, LAMBDA sev : sev = "high")
    IN  IF high > 0
        THEN \E k \in 1..Len(alerts) :
                /\ here = {k}
                /\ alerts[k].severity = "high"
                /\ alerts[k].count = high
        ELSE here = {}

\* C18: once generateEnhancedAlerts has run on the folded results, the alerts
\* are, in this order: a high alert iff locationMatchAccuracy < 70, a medium
\* alert iff timeMatchAccuracy < 60, a medium alert with the count iff
\* unmatchedTrips > 0, a medium alert with the count iff unmatchedWfxEntries > 0,
\* then day by day one high alert with the day and the count for the time
\* discrepancies and one for the location issues, each iff the list of the
\* day holds a high-severity record; there is no other alert.
C18_AlertsDerived ==
    pc = "alerted" =>
        /\ SummaryAlertIff("low_location_accuracy", summary.locationMatchAccuracy < 700,
                           "high", summary.locationMatchAccuracy)
        /\ SummaryAlertIff("low_time_accuracy", summary.timeMatchAccuracy < 600,
                           "medium", summary.timeMatchAccuracy)
        /\ SummaryAlertIff("unmatched_work_trips", summary.unmatchedTrips > 0,
                           "medium", summary.unmatchedTrips)
        /\ SummaryAlertIff("unmatched_wfx_jobs", summary.unmatchedWfxEntries > 0,
                           "medium", summary.unmatchedWfxEntries)
        /\ \A d \in 1..Len(dailyComparisons) :
              /\ dailyComparisons[d].date = d
              /\ DayAlertIff("significant_time_discrepancy", d,
                             dailyComparisons[d].timeDiscrepancies)
              /\ DayAlertIff("significant_location_discrepancy", d,
                             dailyComparisons[d].locationIssues)
        /\ \A k \in 1..Len(alerts) :
              /\ alerts[k].type \in { "low_location_accuracy", "low_time_accuracy",
                                      "unmatched_work_trips", "unmatched_wfx_jobs",
                                      "significant_time_discrepancy",
                                      "significant_location_discrepancy" }
              /\ AlertRank(alerts[k]) >= 4 => alerts[k].date \in 1..Len(dailyComparisons)
        /\ \A p, q \in 1..Len(alerts) :
              p < q => AlertRank(alerts[p]) < AlertRank(alerts[q])

\* alerts derived for a run with a summary alert, a day whose time
\* discrepancies are high and a day whose only discrepancy is medium
C18_Witness ==
    /\ pc = "alerted"
    /\ AlertsOf("unmatched_work_trips") # {}
    /\ AlertsOf("significant_time_discrepancy") # {}
    /\ \E d \in 1..Len(dailyComparisons) :
          /\ Len(dailyComparisons[d].timeDiscrepancies) > 0
          /\ "high" \notin Range(dailyComparisons[d].timeDiscrepancies)
    /\ \E k \in AlertsOf("significant_location_discrepancy") : alerts[k].count = 2

\* the identities of the entries still in unmatchedWfxEntries
RemainingOids(r) == {r.unmatchedWfxEntries[k].oid : k \in 1..Len(r.unmatchedWfxEntries)}

\* C19: an iteration of the confident pass hands to calculateMatchScore only
\* entries that are still in unmatchedWfxEntries, and the entry it commits is
\* one of them: an entry committed for one trip is never the best match of a
\* trip processed later in the pass.
C19_ConfidentScoresRemaining ==
    [][pc = "confident" =>
          /\ \A k \in (Len(scored) + 1)..Len(scored') :
                scored'[k][3] \in RemainingOids(results)
          /\ Len(results'.matched) > Len(results.matched) =>
                results'.matched[Len(results'.matched)].wfxEntry.oid
                    \in RemainingOids(results)]_vars

\* the pair the fuzzy pass is about to score, and its score
FuzzyTrip == results.unmatchedTrips[i]
FuzzyEntry == results.unmatchedWfxEntries[j]
ExceedsFuzzy(trip, wfxEntry) ==
    calculateMatchScore(cfg, trip, wfxEntry).confidence > cfg.fuzzyMatchThreshold

\* the scored pair is committed: a JobMatch of the two with fuzzy_match, both
\* removed from their pools, and the scan goes on with another trip from the
\* last remaining entry
FuzzyPairCommitted ==
    /\ Len(results'.matched) = Len(results.matched) + 1
    /\ LET m == results'.matched[Len(results'.matched)]
       IN  /\ m.trip = FuzzyTrip
           /\ m.wfxEntry = FuzzyEntry
           /\ IsFuzzy(m)
           /\ m.confidence = calculateMatchScore(cfg, FuzzyTrip, FuzzyEntry).confidence
    /\ results'.unmatchedTrips = RemoveAt(results.unmatchedTrips, i)
    /\ results'.unmatchedWfxEntries = RemoveAt(results.unmatchedWfxEntries, j)
    /\ pc' = "fuzzy" => (i' < i /\ j' = Len(results'.unmatchedWfxEntries))

\* the scored pair is left alone and the scan of the trip goes on with the
\* entry before, or with another trip when there is none
FuzzyPairPassed ==
    /\ results' = results
    /\ pc' = "fuzzy" =>
          \/ i' = i /\ j' = j - 1
          \/ j = 1 /\ i' = i - 1 /\ j' = Len(results.unmatchedWfxEntries)

\* the entries of the pool scanned for the trip before the one at hand
ScannedBefore == {results.unmatchedWfxEntries[k] : k \in (j + 1)..Len(results.unmatchedWfxEntries)}

\* C20: the fuzzy pass scans the remaining entries of a remaining trip from
\* the last to the first; the first scored entry whose confidence exceeds
\* fuzzyMatchThreshold is committed with the trip (whatever the entries not
\* yet scanned would score), the JobMatch carries fuzzy_match, both are
\* removed from their pools and the scan of that trip stops; a pair that does
\* not exceed the threshold changes nothing.  No JobMatch of the confident
\* pass carries fuzzy_match.
C20_FuzzyTakesFirst ==
    /\ [](\A k \in 1..Len(results.matched) :
            results.matched[k].pass = "confident" => ~IsFuzzy(results.matched[k]))
    /\ [][(pc = "fuzzy" /\ ~ScoreThrows(FuzzyEntry)) =>
            /\ \A e \in ScannedBefore : ~ScoreThrows(e) /\ ~ExceedsFuzzy(FuzzyTrip, e)
            /\ IF ExceedsFuzzy(FuzzyTrip, FuzzyEntry)
               THEN FuzzyPairCommitted
               ELSE FuzzyPairPassed]_vars

\* a fuzzy JobMatch committed while an entry that was still to be scanned for
\* its trip would have scored higher
C20_Witness ==
    /\ pc = "finish"
    /\ \E b \in 1..Len(results.matched) :
          /\ IsFuzzy(results.matched[b])
          /\ \E k \in 1..Len(results.unmatchedWfxEntries) :
                /\ results.unmatchedWfxEntries[k].oid < results.matched[b].wfxEntry.oid
                /\ ~ScoreThrows(results.unmatchedWfxEntries[k])
                /\ calculateMatchScore(cfg, results.matched[b].trip,
                                       results.unmatchedWfxEntries[k]).confidence
                       > results.matched[b].confidence

\* the JobMatches of the confident pass
ConfidentMatches == {m \in Range(results.matched) : m.pass = "confident"}

\* the records of a discrepancy list that are about the pair of a JobMatch
RecordsOf(list, m) ==
    {k \in 1..Len(list) :
        list[k].trip.tid = m.trip.tid /\ list[k].wfxEntry.oid = m.wfxEntry.oid}

\* C21: a JobMatch of the confident pass has a time discrepancy record exactly
\* when its timeOffsetMinutes exceeds maxTimeOffsetMinutes and a location
\* record exactly when its distanceKm exceeds maxLocationDistanceKm; the
\* severity of a record is high when the offset exceeds twice the configured
\* threshold and medium otherwise, whatever the thresholds are.
C21_SeverityAtTwiceThreshold ==
    \A m \in ConfidentMatches :
        /\ (RecordsOf(results.timeDiscrepancies, m) # {})
               <=> (m.timeOffsetMinutes > cfg.maxTimeOffsetMinutes)
        /\ \A k \in RecordsOf(results.timeDiscrepancies, m) :
              results.timeDiscrepancies[k].severity =
                  (IF m.timeOffsetMinutes > 2 * cfg.maxTimeOffsetMinutes
                   THEN "high" ELSE "medium")
        /\ (RecordsOf(results.locationIssues, m) # {})
               <=> DistanceExceeds(m.distanceKm, cfg.maxLocationDistanceKm)
        /\ \A k \in RecordsOf(results.locationIssues, m) :
              results.locationIssues[k].severity =
                  (IF DistanceExceeds(m.distanceKm, 2 * cfg.maxLocationDistanceKm)
                   THEN "high" ELSE "medium")

\* a record of a discrepancy list is about one of the JobMatches
RefersToMatch(record, matches) ==
    \E k \in 1..Len(matches) :
        /\ matches[k].trip.tid = record.trip.tid
        /\ matches[k].wfxEntry.oid = record.wfxEntry.oid

\* C22: in the DayComparison that matchJobsForDay returns, every JobMatch of
\* either pass whose timeOffsetMinutes exceeds maxTimeOffsetMinutes has exactly
\* one record in timeDiscrepancies, every JobMatch whose distanceKm exceeds
\* maxLocationDistanceKm has exactly one record in locationIssues, and every
\* record of the two lists is about a JobMatch of the day.
C22_DiscrepanciesCoverMatches ==
    DayFinished =>
        /\ \A k \in 1..Len(dayComparison.jobMatches) :
              LET m == dayComparison.jobMatches[k]
              IN  /\ m.timeOffsetMinutes > cfg.maxTimeOffsetMinutes =>
                        Cardinality(RecordsOf(dayComparison.timeDiscrepancies, m)) = 1
                  /\ DistanceExceeds(m.distanceKm, cfg.maxLocationDistanceKm) =>
                        Cardinality(RecordsOf(dayComparison.locationIssues, m)) = 1
        /\ \A k \in 1..Len(dayComparison.timeDiscrepancies) :
              RefersToMatch(dayComparison.timeDiscrepancies[k], dayComparison.jobMatches)
        /\ \A k \in 1..Len(dayComparison.locationIssues) :
              RefersToMatch(dayComparison.locationIssues[k], dayComparison.jobMatches)

\* the number of times a pair was handed to calculateMatchScore in a pass
TimesScored(pass, tid, oid) == CountIn(scored, LAMBDA x : x = <<pass, tid, oid>>)

\* the confident pass is over and has left no trip out: every work trip was
\* scored once against every entry that has job details
ConfidentVisitedAll ==
    pc \in {"fuzzy", "finish", "threw"} =>
        \A k \in 1..Len(trips), e \in 1..Len(wfxEntries) :
            wfxEntries[e].jobDetails # NullRec =>
                TimesScored("confident", trips[k].tid, wfxEntries[e].oid) = 1

\* the fuzzy pass is over and has left no trip out: a trip it did not pair
\* was scored against every entry that is still unmatched
FuzzyVisitedAll ==
    pc = "finish" =>
        \A k \in 1..Len(results.unmatchedTrips), e \in 1..Len(results.unmatchedWfxEntries) :
            TimesScored("fuzzy", results.unmatchedTrips[k].tid,
                        results.unmatchedWfxEntries[e].oid) = 1

\* each step of a pass moves its loops down: the confident pass to the trip
\* before, the fuzzy pass to the entry before or to the trip before
PassAdvances ==
    /\ pc = "confident" => (pc' = "confident" => i' = i - 1)
    /\ pc = "fuzzy" => (pc' = "fuzzy" => (i' = i /\ j' = j - 1) \/ i' = i - 1)
    /\ pc \in {"confident", "fuzzy"} => (i >= 1 /\ i' >= 0 /\ j' >= 0)

\* C23: both passes end: every step moves a loop index down and none goes
\* below zero; no (trip, entry) pair is scored twice in one pass; the
\* confident pass scores every work trip against every entry with job
\* details, and the fuzzy pass every trip it leaves unmatched against every
\* entry it leaves unmatched, so the removals skip no trip and repeat none.
C23_PassesTerminate ==
    /\ [](\A a, b \in 1..Len(scored) : a # b => scored[a] # scored[b])
    /\ [](ConfidentVisitedAll /\ FuzzyVisitedAll)
    /\ [][PassAdvances]_vars

\* a day on which each pass removed a trip from unmatchedTrips
C23_Witness ==
    /\ pc = "finish"
    /\ Len(trips) = 2
    /\ \E a, b \in 1..Len(results.matched) :
          /\ results.matched[a].pass = "confident"
          /\ results.matched[b].pass = "fuzzy"

\* calculateMatchScore has returned for the pair held in probe
Scored == probe # NullRec /\ probe.score # NullRec

\* the two intervals of the pair held in probe, in minutes of the day
ProbeTripStart == timeToMinutes(probe.trip.started)
ProbeTripEnd == timeToMinutes(probe.trip.finished)
ProbeWfxStart ==
    timeToMinutes(IF Falsy(probe.wfxEntry.startTime) THEN DefaultStartTime
                  ELSE probe.wfxEntry.startTime)
ProbeWfxEnd ==
    ProbeWfxStart + (IF probe.wfxEntry.minutes = 0 THEN 60 ELSE probe.wfxEntry.minutes)

\* the length of the intersection of the two intervals and the span of their
\* union
ProbeIntersection ==
    Max(0, Min(ProbeTripEnd, ProbeWfxEnd) - Max(ProbeTripStart, ProbeWfxStart))
ProbeUnionSpan == Max(ProbeTripEnd, ProbeWfxEnd) - Min(ProbeTripStart, ProbeWfxStart)

\* C24: for a trip that does not end before it starts, timeMatch is the
\* length of the intersection of [start, end] and [start, start + minutes]
\* divided by the span of the union of the two intervals, also when they
\* overlap partially, and timeOffsetMinutes is the absolute difference of the
\* two start times.
C24_OverlapOverUnion ==
    (Scored /\ ProbeTripStart <= ProbeTripEnd /\ ProbeUnionSpan > 0) =>
        /\ probe.score.timeMatch[1] * ProbeUnionSpan
               = ProbeIntersection * probe.score.timeMatch[2]
        /\ probe.score.timeOffsetMinutes = Abs(ProbeTripStart - ProbeWfxStart)

\* the contribution of a dimension: the weight above the upper bound, the
\* given thousandths of the weight above the lower bound, else nothing
TierOf(q, lower, upper, weight, thousandths) ==
    IF QGreater(q, upper, 10) THEN weight
    ELSE IF QGreater(q, lower, 10) THEN (weight * thousandths) \div 1000
    ELSE 0

\* the tag of a dimension, if it contributed
TagsOf(q, lower, upper, approximate, exact) ==
    IF QGreater(q, upper, 10) THEN {exact}
    ELSE IF QGreater(q, lower, 10) THEN {approximate}
    ELSE {}

\* the duration ratio of the pair held in probe exceeds 0.7
ProbeDurationMatches ==
    LET tripDuration == timeToMinutes(probe.trip.drivingTime)
        wfxDuration == probe.wfxEntry.minutes
    IN  /\ tripDuration > 0
        /\ wfxDuration > 0
        /\ 10 * Min(tripDuration, wfxDuration) > 7 * Max(tripDuration, wfxDuration)

\* C25: the confidence is the location weight for a location score > 0.8 or
\* 0.6 x that weight for a score in (0.6, 0.8], plus the time weight for a
\* time score > 0.8 or 0.5 x that weight for a score in (0.5, 0.8], plus the
\* duration weight for a duration ratio > 0.7, plus the job-type weight for a
\* job-type score above 0.5 (the score is the constant 0.5, so never); the
\* criteria are exactly the tags of the dimensions that contributed, each once.
C25_ConfidenceIsTierSum ==
    Scored =>
        /\ probe.score.confidence =
               TierOf(probe.score.locationMatch, 6, 8, cfg.locationWeight, 600)
               + TierOf(probe.score.timeMatch, 5, 8, cfg.timeWeight, 500)
               + (IF ProbeDurationMatches THEN cfg.durationWeight ELSE 0)
        /\ Range(probe.score.criteria) =
               TagsOf(probe.score.locationMatch, 6, 8, "approximate_location", "exact_location")
               \cup TagsOf(probe.score.timeMatch, 5, 8, "approximate_time", "time_overlap")
               \cup (IF ProbeDurationMatches THEN {"duration_match"} ELSE {})
        /\ Len(probe.score.criteria) = Cardinality(Range(probe.score.criteria))

\* a call in which an approximate location, an approximate time and the
\* duration contribute
C25_Witness ==
    /\ Scored
    /\ probe.score.criteria = <<"approximate_location", "approximate_time", "duration_match">>
    /\ cfg.locationWeight > 0
    /\ cfg.timeWeight > 0

\* the day-level results of the comparison held in p
DayLevel(p) ==
    [ statuses |-> p.statuses, dayComparison |-> p.dayComparison,
      totalDays |-> p.summary.totalDays, matchedDays |-> p.summary.matchedDays,
      discrepancyDays |-> p.summary.discrepancyDays,
      missingWfxDays |-> p.summary.missingWfxDays, accuracy |-> p.summary.accuracy ]

\* the job-level metrics of the comparison held in p are all 0
JobLevelInitial(p) ==
    /\ p.summary.jobMatchAccuracy = 0
    /\ p.summary.locationMatchAccuracy = 0
    /\ p.summary.timeMatchAccuracy = 0
    /\ p.summary.unmatchedJobs = 0
    /\ p.summary.unmatchedTrips = 0

\* C26: the day-level results (the days' comparisons, totalDays, matchedDays,
\* discrepancyDays, missingWfxDays and the accuracy of matchedDays out of
\* totalDays) are what performTraditionalComparison left, whether the enhanced
\* matching returns, is skipped or throws; after a throw the comparison is
\* returned with the job-level metrics at 0
C26_DayLevelIndependent ==
    /\ [][pc = "compared" => DayLevel(probe') = DayLevel(probe)]_vars
    /\ [](pc = "returned" =>
            /\ probe.summary.totalDays = Len(probe.dates)
            /\ Len(probe.statuses) = Len(probe.dates)
            /\ probe.summary.matchedDays
                 = Cardinality({k \in 1..Len(probe.statuses) : probe.statuses[k] = "matched"})
            /\ probe.summary.accuracy =
                 IF probe.summary.totalDays > 0
                 THEN PercentTenths(probe.summary.matchedDays, probe.summary.totalDays)
                 ELSE 0
            /\ (probe.enhanced \in {"threw", "skipped"} => JobLevelInitial(probe)))

\* the enhanced matching has merged job-level metrics that differ from the
\* accuracy of the days
C26_Witness ==
    /\ pc = "returned"
    /\ probe.enhanced = "merged"
    /\ probe.summary.totalDays = 2
    /\ probe.summary.matchedDays = 1
    /\ probe.summary.accuracy = 500
    /\ probe.summary.jobMatchAccuracy = 1000
    /\ probe.summary.unmatchedTrips = 0
    /\ Len(alerts) > 0

\* matchCriteria.includes(tag)
HasTag(m, tag) == \E k \in 1..Len(m.matchCriteria) : m.matchCriteria[k] = tag

\* the JobMatches recorded so far that carry the fuzzy_match tag
FuzzyMatches == Filter(results.matched, LAMBDA m : HasTag(m, "fuzzy_match"))

\* C27: a JobMatch tagged fuzzy_match has a confidence of at most
\* minimumMatchConfidence (and above fuzzyMatchThreshold): a pair above the
\* minimum has its trip committed by the confident pass
C27_FuzzyBelowMinimum ==
    /\ \A k \in 1..Len(FuzzyMatches) :
          /\ FuzzyMatches[k].confidence <= cfg.minimumMatchConfidence
          /\ FuzzyMatches[k].confidence > cfg.fuzzyMatchThreshold
          /\ FuzzyMatches[k].pass = "fuzzy"
    /\ \A k \in 1..Len(results.matched) :
          results.matched[k].pass = "fuzzy"
             => HasTag(results.matched[k], "fuzzy_match")

\* a day on which the confident pass committed one trip and the fuzzy pass
\* committed another, with an entry the confident pass had scored for it
C27_Witness ==
    /\ pc = "finish"
    /\ Len(FuzzyMatches) > 0
    /\ ConfidentMatches # {}
    /\ \E k \in 1..Len(scored) :
          /\ scored[k][1] = "confident"
          /\ scored[k][2] = FuzzyMatches[1].trip.tid
          /\ scored[k][3] = FuzzyMatches[1].wfxEntry.oid

\* distanceKm is 0 or 0.1
IsNearDistance(distanceKm) ==
    distanceKm # NullNum /\ (distanceKm[1] = 0 \/ distanceKm[1] * 10 = distanceKm[2])

\* C28: under the default configuration every JobMatch of the confident pass
\* carries exact_location and has distanceKm 0 or 0.1, locationIssues is
\* empty for the day being matched and for every stored day, and no
\* significant_location_discrepancy alert is derived
C28_DefaultNoLocationIssues ==
    cfg = DefaultConfig =>
       /\ \A m \in ConfidentMatches :
             /\ HasTag(m, "exact_location")
             /\ IsNearDistance(m.distanceKm)
             /\ ~DistanceExceeds(m.distanceKm, cfg.maxLocationDistanceKm)
       /\ results.locationIssues = <<>>
       /\ \A k \in 1..Len(dailyComparisons) : dailyComparisons[k].locationIssues = <<>>
       /\ \A k \in 1..Len(alerts) : alerts[k].type # "significant_location_discrepancy"

\* under the default configuration a trip to an address that matches the job
\* only approximately reached 0.7 exactly and was left to the fuzzy pass,
\* another trip was committed by the confident pass, and the alerts are derived
C28_Witness ==
    /\ cfg = DefaultConfig
    /\ pc = "alerted"
    /\ ConfidentMatches # {}
    /\ \E k \in 1..Len(FuzzyMatches) :
          /\ HasTag(FuzzyMatches[k], "approximate_location")
          /\ FuzzyMatches[k].confidence = cfg.minimumMatchConfidence

\* two results of calculateLocationMatch are the same score and distance
SameLocationMatch(a, b) ==
    /\ a.score[1] * b.score[2] = b.score[1] * a.score[2]
    /\ (a.distanceKm = NullNum) = (b.distanceKm = NullNum)
    /\ a.distanceKm # NullNum
          => a.distanceKm[1] * b.distanceKm[2] = b.distanceKm[1] * a.distanceKm[2]

\* C29: calculateLocationMatch(a, b) and calculateLocationMatch(b, a) return
\* the same score and the same distanceKm for all addresses a and b, also
\* when a word of more than two characters occurs twice in one of them
C29_LocationMatchSymmetric ==
    pc = "paired" => SameLocationMatch(probe.forward, probe.backward)

\* the symmetry for the pairs in which no address repeats a word
C29_SymmetricWithoutRepeats ==
    (pc = "paired" /\ OakRoadOakPark \notin {probe.address, probe.other})
        => SameLocationMatch(probe.forward, probe.backward)

\* the timesheet entries a set of results holds, matched or not
EntriesOf(r) ==
    {r.matched[k].wfxEntry : k \in 1..Len(r.matched)} \cup Range(r.unmatchedWfxEntries)

\* the dates of csvData that have a timesheet day
DatesWithTimesheet ==
    {k \in 1..Len(probe.csvData) : probe.wfxData[probe.csvData[k].date] # NullRec}

\* the sum of a count over the stored DayComparisons from index k on
RECURSIVE StoredSum(_, _)
StoredSum(field, k) ==
    IF k > Len(dailyComparisons) THEN 0
    ELSE dailyComparisons[k][field] + StoredSum(field, k + 1)

\* C30: performEnhancedComparison takes the dates of csvData in insertion
\* order, one day after another: the k-th DayComparison is that of the k-th
\* date, its timesheet entries are those of wfxData under that date, and at
\* the end there is one DayComparison per date of csvData, totalDays is
\* their number, and the summary counts the entries of those dates only
C30_DaysOfTripDates ==
    /\ [](/\ Len(dailyComparisons) <= dayIdx
          /\ dayIdx <= Len(probe.csvData)
          /\ \A k \in 1..Len(dailyComparisons) : dailyComparisons[k].date = k
          /\ \A e \in EntriesOf(results) : e.id = probe.csvData[dayIdx].date
          /\ summary.matchedJobs = StoredSum("jobMatches", 1)
          /\ summary.unmatchedWfxEntries = StoredSum("unmatchedWfxEntries", 1)
          /\ pc \in {"done", "alerted"} =>
                /\ Len(dailyComparisons) = Len(probe.csvData)
                /\ summary.totalDays = Len(probe.csvData)
                /\ summary.matchedJobs + summary.unmatchedWfxEntries
                     = Cardinality(DatesWithTimesheet))
    /\ [][dayIdx' # dayIdx =>
            /\ pc = "nextDay"
            /\ dayIdx' = dayIdx + 1
            /\ Len(dailyComparisons) = dayIdx]_vars

\* a run over the dates D3, D1 in that order, with a timesheet day under D2
\* that no DayComparison takes and one under D3 that is matched
C30_Witness ==
    /\ pc = "done"
    /\ Len(probe.csvData) = 2
    /\ probe.csvData[1].date = "D3"
    /\ probe.csvData[2].date = "D1"
    /\ probe.wfxData["D2"] # NullRec
    /\ probe.wfxData["D3"] # NullRec
    /\ dailyComparisons[1].jobMatches = 1
    /\ summary.matchedJobs + summary.unmatchedWfxEntries < Cardinality({d \in DateKeys : probe.wfxData[d] # NullRec})

=============================================================================
